---- MODULE Spec2Model ----
(***************************************************************************)
(* FIDES: model of the trust-graph service (TrustService.createTrust,      *)
(* ensureIdentity with its circuit breaker, getScore with the reputation   *)
(* cache) and of the SDK's RFC 9421 request signing and verification.      *)
(*                                                                         *)
(* Times are whole seconds.  A request handler is a process whose position *)
(* (pc) advances at the await points of the TypeScript code: every step    *)
(* between two awaits is one atomic action, because Node runs it to        *)
(* completion on one thread.                                               *)
(***************************************************************************)
EXTENDS Integers, Sequences, FiniteSets, TLC

VARIABLES
    now,              \* Date.now(), in seconds
    ticks,            \* how many times the clock has advanced
    identities,       \* table identities: set of rows [did, publicKey]
    trustEdges,       \* table trust_edges: sequence of rows, insertion order
    reputationScores, \* table reputation_scores: set of rows
    identityCache,    \* TrustService.identityCache: did -> cachedAt (or NULL)
    circuitBreaker,   \* TrustService.circuitBreaker
    handlers,         \* the request handlers in flight
    rowBasis,         \* history: did -> how many trust_edges rows existed
                      \* when the edges of its reputation row were read
    firstFailureAt,       \* history: time of the first of the rejected fetches
                      \* counted in failureCount (NULL when it is 0)
    probedFor,        \* history: the openUntil whose expiry has already
                      \* been followed by a registry call (0: none)
    wire,             \* the signed request on its way to the verifier
    sent,             \* history: what signRequest returned for it
    signatures,       \* the Ed25519 signatures made so far
    nonceStore,       \* NonceStore.seen of the verifier's store
    verdict,          \* what verifyRequest returned last, and history of
                      \* that call
    accepted,         \* history: nonces of the signed requests a verifier
                      \* with a nonce store has accepted
    checks,           \* history of the check calls made on the store
                      \* itself, for each nonce: how many returned true
                      \* and false since the nonce was last absent, and
                      \* when check last returned true
    search,           \* the findTrustPath call in progress or returned
                      \* last: its arguments, its locals and its result
    scored,           \* the last direct call of computeReputationScore:
                      \* its arguments and what each of the two
                      \* implementations returned
    server,           \* a service process: inFlightRequests,
                      \* isShuttingDown, the position of shutdown(), and
                      \* history of the requests received
    resolution,       \* an IdentityResolver: its cache, the resolve call
                      \* in progress and history of its lookups
    discovery         \* the discovery service: its identities table, and
                      \* the last registration with its response

tvars == <<now, ticks, identities, trustEdges, reputationScores,
           identityCache, circuitBreaker, handlers, rowBasis, firstFailureAt,
           probedFor>>

svars == <<wire, sent, signatures, nonceStore, verdict, accepted, checks>>

gvars == <<search, scored>>

hvars == <<server, resolution, discovery>>

vars == <<tvars, svars, gvars, hvars>>

----------------------------------------------------------------------------
(* Bounds of the model *)

MaxTicks == 2
MaxEdges == 1
MaxFailureCount == 6

(* Handler 1 serves the create-trust requests, handler 2 the score        *)
(* requests; the two run concurrently.                                    *)
Handlers == {1, 2}
CreateHandlers == {1}
ScoreHandlers == {2}

(* "A" and "B" are interchangeable identifiers, "C" is one that is never  *)
(* registered and never attests.  Create-trust requests name A or B as    *)
(* issuer and B as subject (A -> B and the self-attestation B -> B);      *)
(* score requests are for B or C.                                         *)
DIDs == {"A", "B", "C"}
RequestDids == {"A", "B"}
SubjectDids == {"B"}
ScoreDids == {"B", "C"}
Keys == {"kA", "kB"}
NoDid == "-"
NoKey == "-"
NULL == -1

(* The key the discovery registry serves for a DID. *)
RegistryKey(did) == IF did = "A" THEN "kA" ELSE "kB"

(* Inputs of the requests. *)
TrustLevels == {-1, 100, 101}
FetchOutcomes == {"ok", "ok_nokey", "not_ok", "throw"}

----------------------------------------------------------------------------
(* Program constants *)

MIN_TRUST_LEVEL == 0
MAX_TRUST_LEVEL == 100
IDENTITY_CACHE_TTL == 1800
CIRCUIT_BREAKER_THRESHOLD == 5
CIRCUIT_BREAKER_RESET == 30
FETCH_TIMEOUT == 3
SCORE_CACHE_TTL == 3600

(* Date.now() when the model starts: later than the epoch by more than    *)
(* any of the periods above, as every real clock is.                      *)
StartTime == 3 * SCORE_CACHE_TTL
DecayNum == 17
DecayDen == 20
REPUTATION_MAX_DEPTH == 3

----------------------------------------------------------------------------
(* SDK request signing: text.                                             *)
(* A text is a sequence of symbols.  A symbol is either one of the        *)
(* characters the canonicalizer and the parser treat specially (quote,    *)
(* parentheses, "=", ";", ":", blank, line feed, "-", the digits) or a    *)
(* word: a run of other characters that none of the regular expressions   *)
(* can break up.                                                          *)

QUOTE == "\""
LF == "\n"
DigitSymbols == <<"0", "1", "2", "3", "4", "5", "6", "7", "8", "9">>

DigitSet == {DigitSymbols[d] : d \in 1..10}

IsDigit(c) == c \in DigitSet

DigitValue(c) == (CHOOSE d \in 1..10 : DigitSymbols[d] = c) - 1

(* `${n}` for a non-negative integer *)
RECURSIVE ToDecimal(_)
ToDecimal(n) ==
    IF n < 10 THEN <<DigitSymbols[n + 1]>>
    ELSE Append(ToDecimal(n \div 10), DigitSymbols[(n % 10) + 1])

(* `${n}` *)
NumberToString(n) == IF n < 0 THEN <<"-">> \o ToDecimal(-n) ELSE ToDecimal(n)

(* parseInt(digits, 10) on a run of digits *)
RECURSIVE parseInt(_)
parseInt(digits) ==
    IF digits = <<>> THEN 0
    ELSE 10 * parseInt(SubSeq(digits, 1, Len(digits) - 1))
         + DigitValue(digits[Len(digits)])

SetMin(S) == CHOOSE x \in S : \A y \in S : x <= y

(* s.indexOf(c), 1-based; 0 when c does not occur *)
indexOf(s, c) ==
    LET I == {i \in 1..Len(s) : s[i] = c}
    IN  IF I = {} THEN 0 ELSE SetMin(I)

(* s.substring(from - 1): the text from position from on *)
Tail_(s, from) == SubSeq(s, from, Len(s))

(* [...].map(c => `"${c}"`).join(' ') *)
RECURSIVE QuoteAndJoin(_)
QuoteAndJoin(names) ==
    IF names = <<>> THEN <<>>
    ELSE <<QUOTE>> \o names[1] \o <<QUOTE>>
         \o (IF Len(names) = 1 THEN <<>>
             ELSE <<" ">> \o QuoteAndJoin(Tail(names)))

(* str.split(/\s+/): the pieces between runs of blanks *)
RECURSIVE SplitBlanks(_, _)
SplitBlanks(s, piece) ==
    IF s = <<>> THEN <<piece>>
    ELSE IF s[1] = " "
         THEN IF Len(s) > 1 /\ s[2] = " "
              THEN SplitBlanks(Tail(s), piece)
              ELSE <<piece>> \o SplitBlanks(Tail(s), <<>>)
    ELSE SplitBlanks(Tail(s), Append(piece, s[1]))

(* c.replace(/"/g, '') *)
StripQuotes(s) == SelectSeq(s, LAMBDA c : c # QUOTE)

(* The match of /key=(\d+)/ in s: the captured digits, <<>> if none. *)
MatchNumber(s, key) ==
    LET I == {i \in 1..Len(s) - 2 :
                 s[i] = key /\ s[i + 1] = "=" /\ IsDigit(s[i + 2])}
    IN  IF I = {} THEN <<>>
        ELSE LET i == SetMin(I)
                 J == {j \in i + 3..Len(s) + 1 :
                          j = Len(s) + 1 \/ ~IsDigit(s[j])}
             IN  SubSeq(s, i + 2, SetMin(J) - 1)

(* The match of /key="([^"]+)"/ in s: the captured text, <<>> if none     *)
(* (the capture itself is never empty).                                   *)
MatchQuoted(s, key) ==
    LET I == {i \in 1..Len(s) - 4 :
                 /\ s[i] = key /\ s[i + 1] = "=" /\ s[i + 2] = QUOTE
                 /\ s[i + 3] # QUOTE
                 /\ \E j \in i + 4..Len(s) : s[j] = QUOTE}
    IN  IF I = {} THEN <<>>
        ELSE LET i == SetMin(I)
                 j == SetMin({j \in i + 4..Len(s) : s[j] = QUOTE})
             IN  SubSeq(s, i + 3, j - 1)

(* The match of /\(([^)]+)\)/ in s: [from, to] are the positions of the   *)
(* parentheses, from = 0 if there is no match.                            *)
MatchParenthesized(s) ==
    LET I == {i \in 1..Len(s) - 2 :
                 /\ s[i] = "(" /\ s[i + 1] # ")"
                 /\ \E j \in i + 2..Len(s) : s[j] = ")"}
    IN  IF I = {} THEN [from |-> 0, to |-> 0]
        ELSE LET i == SetMin(I)
             IN  [from |-> i,
                  to |-> SetMin({j \in i + 2..Len(s) : s[j] = ")"})]

----------------------------------------------------------------------------
(* SDK request signing: requests, keys and what the runtime computes.     *)
(* A request is [method, url, headers, body]; headers is the list of the  *)
(* object's entries [name, value] in insertion order, body "" when the    *)
(* request has none.                                                      *)

Undefined == <<>>

(* String.prototype.toLowerCase / toUpperCase on the names in use *)
toLowerCase(w) ==
    CASE w = "Content-Type" -> "content-type"
      [] w = "Content-Digest" -> "content-digest"
      [] w = "Signature-Input" -> "signature-input"
      [] w = "Signature" -> "signature"
      [] OTHER -> w

toUpperCase(w) ==
    CASE w = "get" -> "GET"
      [] w = "post" -> "POST"
      [] OTHER -> w

LowerText(s) == [i \in 1..Len(s) |-> toLowerCase(s[i])]

(* new URL(url): which of the urls in use parse, and their parts *)
URLParses(url) ==
    url \in {"https://a.example/x", "https://a.example/y?q=1",
             "https://b.example/x"}

URLHost(url) == IF url = "https://b.example/x" THEN "b.example" ELSE "a.example"

URLPathAndSearch(url) == IF url = "https://a.example/y?q=1" THEN "/y?q=1" ELSE "/x"

DerivedComponents == {"@method", "@target-uri", "@authority", "@path", "@query"}

(* Ed25519 keys: the private keys in use and their public keys; "pkShort" *)
(* is a byte string of the wrong length.                                  *)
PrivateKeys == {"skA", "skB"}
PublicKeys == {"pkA", "pkB", "pkShort"}
getPublicKey(sk) == IF sk = "skA" THEN "pkA" ELSE "pkB"
KeyLength(pk) == IF pk = "pkShort" THEN 31 ELSE 32
ED25519_PUBLIC_KEY_LENGTH == 32
DEFAULT_SIGNATURE_EXPIRY_SECONDS == 300
DEFAULT_CLOCK_DRIFT_SECONDS == 30

(* The n-th signature made is n; signatures[n] records the key and the    *)
(* bytes it was made over.  Its base64 text and the decoding of a text:   *)
(* the text of a number decodes to 64 bytes (a signature somebody made or *)
(* not), any other text to bytes that are not 64, which 0 stands for.     *)
toBase64(n) == <<"b64.">> \o ToDecimal(n)

fromBase64(s) ==
    IF Len(s) >= 2 /\ s[1] = "b64." /\ \A i \in 2..Len(s) : IsDigit(s[i])
    THEN parseInt(Tail(s))
    ELSE 0

(* createHash('sha256').update(body).digest('base64') *)
sha256Base64(body) == <<"sha.", body>>

(* crypto.randomUUID(): the n-th call returns a value no other returns *)
randomUUID(n) == <<"uuid.">> \o ToDecimal(n)

(* headers[name] *)
HeaderGet(headers, name) ==
    LET I == {i \in 1..Len(headers) : headers[i].name = name}
    IN  IF I = {} THEN Undefined ELSE headers[SetMin(I)].value

(* headers[name] = value *)
HeaderSet(headers, name, value) ==
    IF \E i \in 1..Len(headers) : headers[i].name = name
    THEN [i \in 1..Len(headers) |->
            IF headers[i].name = name THEN [name |-> name, value |-> value]
            ELSE headers[i]]
    ELSE Append(headers, [name |-> name, value |-> value])

(* Variant: what was thrown carries no message. *)
Thrown_Silent(msg) == [ok |-> FALSE, value |-> <<>>, error |-> ""]

(* The outcome of a call that may throw *)
Thrown(msg) == [ok |-> FALSE, value |-> <<>>, error |-> msg]
Returned(v) == [ok |-> TRUE, value |-> v, error |-> ""]

----------------------------------------------------------------------------
(* canonicalize.ts *)

extractComponent(request, componentName) ==
    IF componentName # <<>> /\ componentName[1] \in DerivedComponents
    THEN IF ~URLParses(request.url) THEN Thrown("Invalid URL")
         ELSE IF componentName = <<"@method">>
              THEN Returned(<<toUpperCase(request.method)>>)
         ELSE IF componentName = <<"@target-uri">>
              THEN Returned(<<request.url>>)
         ELSE IF componentName = <<"@authority">>
              THEN Returned(<<URLHost(request.url)>>)
         ELSE IF componentName = <<"@path">>
              THEN Returned(<<URLPathAndSearch(request.url)>>)
         ELSE Thrown("Unknown derived component")
    ELSE LET normalizedName == LowerText(componentName)
             I == {i \in 1..Len(request.headers) :
                      <<toLowerCase(request.headers[i].name)>>
                          = normalizedName}
         IN  IF I = {} THEN Thrown("Header not found")
             ELSE Returned(request.headers[SetMin(I)].value)

(* The component lines of the signature base, each followed by a line     *)
(* feed: "name": value                                                    *)
RECURSIVE ComponentLines(_, _)
ComponentLines(request, components) ==
    IF components = <<>> THEN Returned(<<>>)
    ELSE LET value == extractComponent(request, components[1])
             rest == ComponentLines(request, Tail(components))
         IN  IF ~value.ok THEN value
             ELSE IF ~rest.ok THEN rest
             ELSE Returned(<<QUOTE>> \o components[1] \o <<QUOTE, ":", " ">>
                           \o value.value \o <<LF>> \o rest.value)

(* Variant: the signature base is the "@signature-params" line alone. *)
createSignatureBase_ParamsOnly(request, params) ==
    Returned(<<QUOTE, "@signature-params", QUOTE, ":", " ", "(">>
             \o QuoteAndJoin(params.components)
             \o <<")", ";", "created", "=">> \o NumberToString(params.created)
             \o <<";", "expires", "=">> \o NumberToString(params.expires)
             \o <<";", "keyid", "=", QUOTE>> \o params.keyid
             \o <<QUOTE, ";", "alg", "=", QUOTE>> \o params.alg \o <<QUOTE>>)

createSignatureBase(request, params) ==
    LET lines == ComponentLines(request, params.components)
        paramsLine ==
            <<QUOTE, "@signature-params", QUOTE, ":", " ", "(">>
            \o QuoteAndJoin(params.components)
            \o <<")", ";", "created", "=">> \o NumberToString(params.created)
            \o <<";", "expires", "=">> \o NumberToString(params.expires)
            \o <<";", "keyid", "=", QUOTE>> \o params.keyid
            \o <<QUOTE, ";", "alg", "=", QUOTE>> \o params.alg \o <<QUOTE>>
    IN  IF ~lines.ok THEN lines ELSE Returned(lines.value \o paramsLine)

NoParams ==
    [components |-> <<>>, created |-> 0, expires |-> 0, keyid |-> <<>>,
     alg |-> <<>>]

ParseFailed(msg) ==
    [ok |-> FALSE, error |-> msg, label |-> <<>>, params |-> NoParams]

(* Variant: the parser also extracts the nonce parameter. *)
parseSignatureInput_WithNonce(signatureInput) ==
    LET eqIndex == indexOf(signatureInput, "=")
        label == SubSeq(signatureInput, 1, eqIndex - 1)
        rest == Tail_(signatureInput, eqIndex + 1)
        componentsMatch == MatchParenthesized(rest)
        componentsStr ==
            SubSeq(rest, componentsMatch.from + 1, componentsMatch.to - 1)
        pieces == SplitBlanks(componentsStr, <<>>)
        components ==
            SelectSeq([i \in 1..Len(pieces) |-> StripQuotes(pieces[i])],
                      LAMBDA c : Len(c) > 0)
        paramsStr == Tail_(rest, componentsMatch.to + 1)
        createdMatch == MatchNumber(paramsStr, "created")
        expiresMatch == MatchNumber(paramsStr, "expires")
        keyidMatch == MatchQuoted(paramsStr, "keyid")
        algMatch == MatchQuoted(paramsStr, "alg")
    IN  IF eqIndex = 0 \/ componentsMatch.from = 0 \/ createdMatch = <<>>
           \/ expiresMatch = <<>> \/ keyidMatch = <<>> \/ algMatch = <<>>
        THEN ParseFailed("Invalid Signature-Input format")
        ELSE [ok |-> TRUE, error |-> "", label |-> label,
              params |-> [components |-> components,
                          created |-> parseInt(createdMatch),
                          expires |-> parseInt(expiresMatch),
                          keyid |-> keyidMatch,
                          alg |-> algMatch,
                          nonce |-> MatchQuoted(paramsStr, "nonce")]]

parseSignatureInput(signatureInput) ==
    LET eqIndex == indexOf(signatureInput, "=")
        label == SubSeq(signatureInput, 1, eqIndex - 1)
        rest == Tail_(signatureInput, eqIndex + 1)
        componentsMatch == MatchParenthesized(rest)
        componentsStr ==
            SubSeq(rest, componentsMatch.from + 1, componentsMatch.to - 1)
        pieces == SplitBlanks(componentsStr, <<>>)
        components ==
            SelectSeq([i \in 1..Len(pieces) |-> StripQuotes(pieces[i])],
                      LAMBDA c : Len(c) > 0)
        paramsStr == Tail_(rest, componentsMatch.to + 1)
        createdMatch == MatchNumber(paramsStr, "created")
        expiresMatch == MatchNumber(paramsStr, "expires")
        keyidMatch == MatchQuoted(paramsStr, "keyid")
        algMatch == MatchQuoted(paramsStr, "alg")
    IN  IF eqIndex = 0 THEN ParseFailed("missing =")
        ELSE IF componentsMatch.from = 0
             THEN ParseFailed("missing component list")
        ELSE IF createdMatch = <<>> THEN ParseFailed("missing created")
        ELSE IF expiresMatch = <<>> THEN ParseFailed("missing expires")
        ELSE IF keyidMatch = <<>> THEN ParseFailed("missing keyid")
        ELSE IF algMatch = <<>> THEN ParseFailed("missing alg")
        ELSE [ok |-> TRUE, error |-> "", label |-> label,
              params |-> [components |-> components,
                          created |-> parseInt(createdMatch),
                          expires |-> parseInt(expiresMatch),
                          keyid |-> keyidMatch,
                          alg |-> algMatch]]

----------------------------------------------------------------------------
(* keypair.ts, nonce-store.ts, sign.ts and verify.ts *)

(* sign(message, privateKey): the record of the signature made *)
sign(message, privateKey) == [key |-> privateKey, msg |-> message]

(* verify(message, signature, publicKey), signature being the n-th made   *)
(* (0: bytes that are not 64 long): what it returns, or that it throws,   *)
(* as it does for a key that is not 32 bytes long and when                *)
(* ed25519.verifyAsync throws, which it does for a signature of the wrong *)
(* length.                                                                *)
verify(message, n, publicKey, made) ==
    IF KeyLength(publicKey) # 32 \/ n = 0
    THEN Thrown("Failed to verify signature")
    ELSE Returned(/\ n \in 1..Len(made)
                  /\ made[n].msg = message
                  /\ getPublicKey(made[n].key) = publicKey)

(* new NonceStore(): ttlSeconds, and the seconds between two cleanups *)
NONCE_TTL == 300
CLEANUP_INTERVAL == 60

(* The nonces handed to check, and no history of checks. *)
Nonces == {"n1", "n2"}
NoChecks == [trues |-> 0, falses |-> 0, lastTrueAt |-> NULL]

(* Variant: check records the nonce and calls it fresh whether or not it  *)
(* is in the map.                                                         *)
check_Overwrite(seen, nonce, t) ==
    [fresh |-> TRUE,
     seen |-> {e \in seen : e.nonce # nonce}
              \cup {[nonce |-> nonce, timestamp |-> t]}]

(* NonceStore.check(nonce): fresh tells whether the nonce was new; seen   *)
(* is the map afterwards, a set of entries [nonce, timestamp].            *)
check(seen, nonce, t) ==
    IF \E e \in seen : e.nonce = nonce
    THEN [fresh |-> FALSE, seen |-> seen]
    ELSE [fresh |-> TRUE,
          seen |-> seen \cup {[nonce |-> nonce, timestamp |-> t]}]

(* Variant: the timestamp test of cleanup lets go of an entry in the      *)
(* second its age reaches the TTL.                                        *)
cleanup_Inclusive(seen, t) ==
    {e \in seen : ~(e.timestamp <= t - NONCE_TTL)}

(* NonceStore.cleanup() at time t: the map afterwards *)
cleanup(seen, t) ==
    LET cutoff == t - NONCE_TTL
    IN  {e \in seen : ~(e.timestamp < cutoff)}

(* An option that was not given is <<>>, one that was given is <<value>>. *)
OptionOr(option, default) == IF option = <<>> THEN default ELSE option[1]

DefaultComponents ==
    << <<"@method">>, <<"@target-uri">>, <<"@authority">>,
       <<"content-type">> >>

Includes(list, x) == \E i \in 1..Len(list) : list[i] = x

NoRequest == [method |-> "", url |-> "", headers |-> <<>>, body |-> ""]

(* signRequest(request, privateKey, options) called at time t, making the *)
(* n-th signature: the signed request and the signature, or the error     *)
(* thrown.                                                                *)
signRequest(request, privateKey, options, t, n) ==
    LET keyid == OptionOr(options.keyid, <<"unknown">>)
        components == OptionOr(options.components, DefaultComponents)
        expirySeconds == OptionOr(options.expirySeconds,
                                  DEFAULT_SIGNATURE_EXPIRY_SECONDS)
        label == OptionOr(options.label, <<"sig1">>)
        hasBody == request.body # ""
        updatedHeaders ==
            IF hasBody
            THEN HeaderSet(request.headers, "Content-Digest",
                           <<"sha-256", "=", ":">>
                           \o sha256Base64(request.body) \o <<":">>)
            ELSE request.headers
        signedComponents ==
            IF hasBody /\ ~Includes(components, <<"content-digest">>)
            THEN Append(components, <<"content-digest">>)
            ELSE components
        updatedRequest == [request EXCEPT !.headers = updatedHeaders]
        created == t
        expires == created + expirySeconds
        nonce == randomUUID(n)
        params == [components |-> signedComponents, created |-> created,
                   expires |-> expires, keyid |-> keyid,
                   alg |-> <<"ed25519">>, nonce |-> nonce]
        signatureBase == createSignatureBase(updatedRequest, params)
        signatureInput ==
            label \o <<"=", "(">> \o QuoteAndJoin(signedComponents)
            \o <<")", ";", "created", "=">> \o NumberToString(created)
            \o <<";", "expires", "=">> \o NumberToString(expires)
            \o <<";", "nonce", "=", QUOTE>> \o nonce
            \o <<QUOTE, ";", "keyid", "=", QUOTE>> \o keyid
            \o <<QUOTE, ";", "alg", "=", QUOTE, "ed25519", QUOTE>>
        signature == label \o <<"=", ":">> \o toBase64(n) \o <<":">>
    IN  IF ~signatureBase.ok
        THEN [ok |-> FALSE, error |-> signatureBase.error,
              request |-> NoRequest, made |-> sign(<<>>, privateKey),
              params |-> params]
        ELSE [ok |-> TRUE, error |-> "",
              request |-> [request EXCEPT !.headers =
                  HeaderSet(HeaderSet(updatedHeaders, "Signature-Input",
                                      signatureInput),
                            "Signature", signature)],
              made |-> sign(signatureBase.value, privateKey),
              params |-> params]

(* The match of new RegExp(`${label}=:([^:]+):`) in the Signature header, *)
(* for a label without regular-expression operators: the captured text,   *)
(* <<>> if none.                                                          *)
MatchSignature(signature, label) ==
    LET n == Len(label)
        I == {i \in 1..Len(signature) - n - 3 :
                 /\ SubSeq(signature, i, i + n - 1) = label
                 /\ signature[i + n] = "=" /\ signature[i + n + 1] = ":"
                 /\ signature[i + n + 2] # ":"
                 /\ \E j \in i + n + 3..Len(signature) : signature[j] = ":"}
    IN  IF I = {} THEN <<>>
        ELSE LET i == SetMin(I)
                 j == SetMin({j \in i + n + 3..Len(signature) :
                                 signature[j] = ":"})
             IN  SubSeq(signature, i + n + 2, j - 1)

(* Variant: a signature is already expired in the second expires + drift. *)
isExpired_Inclusive(params, clockDrift, t) == params.expires + clockDrift <= t

(* params.expires + clockDrift < now *)
isExpired(params, clockDrift, t) == params.expires + clockDrift < t

(* params.nonce *)
ParamNonce(params) ==
    IF "nonce" \in DOMAIN params THEN params.nonce ELSE Undefined

Verdict(valid, keyId, error, seen) ==
    [valid |-> valid, keyId |-> keyId, error |-> error, seen |-> seen]

(* verifyRequest(request, publicKey, options) called at time t; seen is   *)
(* the options' nonce store (options.nonceStore tells whether one was     *)
(* given), made the signatures that exist.  The result, and the store     *)
(* afterwards.                                                            *)
verifyRequest(request, publicKey, options, seen, t, made) ==
    LET signatureInput ==
            IF HeaderGet(request.headers, "Signature-Input") # <<>>
            THEN HeaderGet(request.headers, "Signature-Input")
            ELSE HeaderGet(request.headers, "signature-input")
        signature ==
            IF HeaderGet(request.headers, "Signature") # <<>>
            THEN HeaderGet(request.headers, "Signature")
            ELSE HeaderGet(request.headers, "signature")
        parsed == parseSignatureInput(signatureInput)
        label == parsed.label
        params == parsed.params
        clockDrift == OptionOr(options.clockDriftSeconds,
                               DEFAULT_CLOCK_DRIFT_SECONDS)
        consult == options.nonceStore /\ ParamNonce(params) # Undefined
        checked == IF consult THEN check(seen, ParamNonce(params), t)
                   ELSE [fresh |-> TRUE, seen |-> seen]
        signatureMatch == MatchSignature(signature, label)
        signatureBytes == fromBase64(signatureMatch)
        signatureBase == createSignatureBase(request, params)
        isValid == verify(signatureBase.value, signatureBytes, publicKey,
                          made)
        contentDigest ==
            IF HeaderGet(request.headers, "Content-Digest") # <<>>
            THEN HeaderGet(request.headers, "Content-Digest")
            ELSE HeaderGet(request.headers, "content-digest")
        digestMatch ==
            MatchSignature(contentDigest, <<"sha-256">>)
    IN  IF KeyLength(publicKey) # ED25519_PUBLIC_KEY_LENGTH
        THEN Verdict(FALSE, Undefined, "Invalid public key length", seen)
        ELSE IF signatureInput = <<>> \/ signature = <<>>
        THEN Verdict(FALSE, Undefined,
                     "Missing Signature or Signature-Input headers", seen)
        ELSE IF ~parsed.ok
        THEN Verdict(FALSE, Undefined, parsed.error, seen)
        ELSE IF params.alg # <<"ed25519">>
        THEN Verdict(FALSE, params.keyid, "Unsupported algorithm", seen)
        ELSE IF isExpired(params, clockDrift, t)
        THEN Verdict(FALSE, params.keyid, "Signature expired", seen)
        ELSE IF ~checked.fresh
        THEN Verdict(FALSE, params.keyid,
                     "Replay detected: nonce already used", checked.seen)
        ELSE IF signatureMatch = <<>>
        THEN Verdict(FALSE, params.keyid, "Invalid Signature header format",
                     checked.seen)
        ELSE IF ~signatureBase.ok
        THEN Verdict(FALSE, Undefined, signatureBase.error, checked.seen)
        ELSE IF ~isValid.ok
        THEN Verdict(FALSE, Undefined, isValid.error, checked.seen)
        ELSE IF ~isValid.value
        THEN Verdict(FALSE, params.keyid, "Signature verification failed",
                     checked.seen)
        ELSE IF contentDigest # <<>> /\ request.body # ""
                /\ digestMatch = <<>>
        THEN Verdict(FALSE, params.keyid,
                     "Invalid Content-Digest header format", checked.seen)
        ELSE IF contentDigest # <<>> /\ request.body # ""
                /\ sha256Base64(request.body) # digestMatch
        THEN Verdict(FALSE, params.keyid, "Content-Digest mismatch",
                     checked.seen)
        ELSE Verdict(TRUE, params.keyid, "", checked.seen)

----------------------------------------------------------------------------
(* A signer, the network and a verifier.                                  *)
(* The signer signs one request and sends it; on the way one part of it   *)
(* may be changed; the verifier, which keeps one nonce store, verifies    *)
(* what arrives, up to MaxVerifies times.                                 *)

MaxVerifies == 2

JsonType == <<"application/json">>

SignableRequests ==
    {[method |-> "GET", url |-> "https://a.example/x",
      headers |-> <<[name |-> "content-type", value |-> JsonType]>>,
      body |-> ""],
     [method |-> "post", url |-> "https://a.example/y?q=1",
      headers |-> <<[name |-> "Content-Type", value |-> JsonType],
                    [name |-> "x-a", value |-> <<"1">>]>>,
      body |-> "b1"],
     [method |-> "GET", url |-> "https://b.example/x",
      headers |-> <<>>, body |-> ""],
     [method |-> "GET", url |-> "/relative",
      headers |-> <<[name |-> "content-type", value |-> JsonType]>>,
      body |-> ""]}

NoOptions ==
    [keyid |-> <<>>, components |-> <<>>, expirySeconds |-> <<>>,
     label |-> <<>>]

(* The options a signer passes: none, or one of them set. *)
SignOptions ==
    {NoOptions,
     [NoOptions EXCEPT !.keyid = << <<"did:fides:A">> >>],
     [NoOptions EXCEPT !.keyid = << <<>> >>],
     [NoOptions EXCEPT !.components =
          << << <<"@method">>, <<"@path">>, <<"x-a">> >> >>],
     [NoOptions EXCEPT !.components = << << <<"@method">> >> >>],
     [NoOptions EXCEPT !.components = << <<>> >>],
     [NoOptions EXCEPT !.components = << << <<"@query">> >> >>],
     [NoOptions EXCEPT !.expirySeconds = <<-1>>],
     [NoOptions EXCEPT !.label = << <<"my-sig">> >>]}

SigningKeys == {"skA"}

VerifyOptions ==
    [nonceStore : BOOLEAN, clockDriftSeconds : {<<>>}]

TamperMethods == {"GET", "post"}
TamperUrls == {"https://a.example/x", "https://a.example/y?q=1",
               "https://b.example/x"}
TamperValues == {JsonType, <<"text/plain">>}
TamperBodies == {"", "b1", "b2"}

NoSent ==
    [ok |-> FALSE, error |-> "", request |-> NoRequest,
     made |-> sign(<<>>, "skA"),
     params |-> [components |-> <<>>, created |-> 0, expires |-> 0,
                 keyid |-> <<>>, alg |-> <<>>, nonce |-> <<>>]]

NoVerdict ==
    [n |-> 0, valid |-> FALSE, keyId |-> <<>>, error |-> "",
     publicKey |-> "", nonceStore |-> FALSE, drift |-> <<>>,
     fresh |-> FALSE,
     untampered |-> FALSE, signedChanged |-> FALSE, replay |-> FALSE]

SignInit ==
    /\ wire = NoRequest
    /\ sent = NoSent
    /\ signatures = <<>>
    /\ nonceStore = {}
    /\ verdict = NoVerdict
    /\ accepted = {}
    /\ checks = [n \in Nonces |-> NoChecks]

(* The signer calls signRequest and sends the result; when signRequest    *)
(* throws, nothing is sent.                                               *)
SignRequest(request, privateKey, options) ==
    LET out == signRequest(request, privateKey, options, now,
                           Len(signatures) + 1)
    IN  /\ signatures = <<>>
        /\ sent' = out
        /\ wire' = out.request
        /\ signatures' = IF out.ok THEN Append(signatures, out.made)
                         ELSE signatures
        /\ verdict' = NoVerdict
        /\ UNCHANGED <<nonceStore, accepted, checks, tvars, gvars, hvars>>

(* One part of the request is changed on the way, before it arrives. *)
Tampered(request) ==
    /\ sent.ok
    /\ verdict.n = 0
    /\ wire = sent.request
    /\ request # wire
    /\ wire' = request
    /\ UNCHANGED <<sent, signatures, nonceStore, verdict, accepted, checks,
                   tvars, gvars, hvars>>

TamperMethod(method) == Tampered([wire EXCEPT !.method = method])

TamperUrl(url) == Tampered([wire EXCEPT !.url = url])

TamperHeader(i, value) ==
    /\ i \in 1..Len(wire.headers)
    /\ wire.headers[i].name \notin {"Signature", "Signature-Input"}
    /\ Tampered([wire EXCEPT !.headers[i].value = value])

TamperBody(body) == Tampered([wire EXCEPT !.body = body])

(* Whether some component the signer signed has another value in request  *)
(* than in the request as signed.                                         *)
SignedComponentChanged(request) ==
    \E i \in 1..Len(sent.params.components) :
        extractComponent(request, sent.params.components[i])
            # extractComponent(sent.request, sent.params.components[i])

(* The verifier calls verifyRequest on what arrived. *)
VerifyRequest(publicKey, options) ==
    LET result == verifyRequest(wire, publicKey, options, nonceStore, now,
                                signatures)
    IN  /\ sent.ok
        /\ verdict.n < MaxVerifies
        /\ verdict' =
             [n |-> verdict.n + 1, valid |-> result.valid,
              keyId |-> result.keyId, error |-> result.error,
              publicKey |-> publicKey, nonceStore |-> options.nonceStore,
              drift |-> options.clockDriftSeconds,
              fresh |-> now <= sent.params.expires
                               + OptionOr(options.clockDriftSeconds,
                                          DEFAULT_CLOCK_DRIFT_SECONDS),
              untampered |-> wire = sent.request,
              signedChanged |-> SignedComponentChanged(wire),
              replay |-> options.nonceStore
                         /\ sent.params.nonce \in accepted]
        /\ nonceStore' = result.seen
        /\ accepted' = IF result.valid /\ options.nonceStore
                       THEN accepted \cup {sent.params.nonce}
                       ELSE accepted
        /\ UNCHANGED <<wire, sent, signatures, checks, tvars, gvars, hvars>>

----------------------------------------------------------------------------
(* Reputation scoring: computeReputationScore and its helpers.             *)
(* Doubles are modelled in fixed point: a path trust is an exact fraction  *)
(* num/den, transitiveScore is kept in units of 1/TScale and the final     *)
(* score in millionths.                                                    *)

TScale == 80000000
Million == 1000000

RECURSIVE Pow(_, _)
Pow(b, e) == IF e = 0 THEN 1 ELSE b * Pow(b, e - 1)

Min(a, b) == IF a < b THEN a ELSE b

(* The identifiers edges are drawn over: those of the requests and two   *)
(* more, so that paths of up to four hops exist.                         *)
GraphDids == DIDs \cup {"D", "E"}

filterValidEdges(edges, timestamp) ==
    SelectSeq(edges, LAMBDA e :
        /\ e.revokedAt = NULL
        /\ ~(e.expiresAt # NULL /\ e.expiresAt < timestamp))

(* reverseIndex.get(did) || [] : the incoming edges of did, in edge order *)
buildReverseIndex(validEdges) ==
    [d \in GraphDids |-> SelectSeq(validEdges, LAMBDA e : e.targetDid = d)]

RECURSIVE SumLevels(_)
SumLevels(es) ==
    IF es = <<>> THEN 0 ELSE Head(es).trustLevel + SumLevels(Tail(es))

(* new Set(directEdges.map(e => e.sourceDid)), in insertion order *)
RECURSIVE SourcesInOrder(_, _)
SourcesInOrder(es, acc) ==
    IF es = <<>> THEN acc
    ELSE LET s == Head(es).sourceDid
         IN  SourcesInOrder(Tail(es),
                 IF \E i \in 1..Len(acc) : acc[i] = s THEN acc
                 ELSE Append(acc, s))

(* The for-loop over incomingEdges of one dequeued item (scoring.ts 67-83) *)
RECURSIVE ScanIncoming(_, _, _)
ScanIncoming(incoming, current, st) ==
    IF incoming = <<>> THEN st
    ELSE LET edge == Head(incoming)
         IN  IF edge.sourceDid \in st.visited
             THEN ScanIncoming(Tail(incoming), current, st)
             ELSE LET num == current.num * edge.trustLevel
                                 * Pow(DecayNum, current.depth)
                      den == current.den * 100 * Pow(DecayDen, current.depth)
                  IN  ScanIncoming(Tail(incoming), current,
                        [visited |-> st.visited \cup {edge.sourceDid},
                         transitive |-> st.transitive \cup {edge.sourceDid},
                         tscore |-> st.tscore + num * (TScale \div den),
                         queue |-> Append(st.queue,
                             [did |-> edge.sourceDid,
                              depth |-> current.depth + 1,
                              num |-> num, den |-> den])])

(* A loop that stops one hop earlier. *)
RECURSIVE ScoreBFS_TwoHops(_, _, _)
ScoreBFS_TwoHops(reverseIndex, head, st) ==
    IF head > Len(st.queue) THEN st
    ELSE LET current == st.queue[head]
         IN  IF current.depth >= REPUTATION_MAX_DEPTH - 1
             THEN ScoreBFS_TwoHops(reverseIndex, head + 1, st)
             ELSE ScoreBFS_TwoHops(reverseIndex, head + 1,
                     ScanIncoming(reverseIndex[current.did], current, st))

(* The while-loop with index-based dequeue (scoring.ts 56-84) *)
RECURSIVE ScoreBFS(_, _, _)
ScoreBFS(reverseIndex, head, st) ==
    IF head > Len(st.queue) THEN st
    ELSE LET current == st.queue[head]
         IN  IF current.depth >= REPUTATION_MAX_DEPTH
             THEN ScoreBFS(reverseIndex, head + 1, st)
             ELSE ScoreBFS(reverseIndex, head + 1,
                     ScanIncoming(reverseIndex[current.did], current, st))

computeReputationScore(edges, did, timestamp) ==
    LET validEdges == filterValidEdges(edges, timestamp)
        reverseIndex == buildReverseIndex(validEdges)
        directEdges == reverseIndex[did]
        directTrusters == SourcesInOrder(directEdges, <<>>)
        directScore ==
            IF Len(directEdges) > 0
            THEN (SumLevels(directEdges) * 10000) \div Len(directEdges)
            ELSE 0
        st0 == [visited |-> {did} \cup {directTrusters[i] :
                                          i \in 1..Len(directTrusters)},
                transitive |-> {},
                tscore |-> 0,
                queue |-> [i \in 1..Len(directTrusters) |->
                             [did |-> directTrusters[i], depth |-> 1,
                              num |-> 1, den |-> 1]]]
        st == ScoreBFS(reverseIndex, 1, st0)
        transitiveScore == Min(st.tscore, TScale) \div (TScale \div Million)
        combinedScore == (directScore * 7 + transitiveScore * 3) \div 10
    IN  [score |-> Min(combinedScore, Million),
         directTrusters |-> Len(directTrusters),
         transitiveTrusters |-> Cardinality(st.transitive),
         transitive |-> st.transitive]

(* The implementation that filters (types.ts): the while-loop with        *)
(* queue.shift(); the incoming edges of the dequeued item are filtered    *)
(* out of validEdges.                                                     *)
RECURSIVE ScoreBFSShift(_, _)
ScoreBFSShift(validEdges, st) ==
    IF st.queue = <<>> THEN st
    ELSE LET current == Head(st.queue)
             rest == [st EXCEPT !.queue = Tail(st.queue)]
         IN  IF current.depth >= REPUTATION_MAX_DEPTH
             THEN ScoreBFSShift(validEdges, rest)
             ELSE ScoreBFSShift(validEdges,
                     ScanIncoming(SelectSeq(validEdges,
                                     LAMBDA e : e.targetDid = current.did),
                                  current, rest))

(* computeReputationScore of types.ts *)
computeReputationScoreFiltering(edges, did, timestamp) ==
    LET validEdges == SelectSeq(edges, LAMBDA e :
                         /\ e.revokedAt = NULL
                         /\ ~(e.expiresAt # NULL /\ e.expiresAt < timestamp))
        directEdges == SelectSeq(validEdges, LAMBDA e : e.targetDid = did)
        directTrusters == SourcesInOrder(directEdges, <<>>)
        directScore ==
            IF Len(directEdges) > 0
            THEN (SumLevels(directEdges) * 10000) \div Len(directEdges)
            ELSE 0
        st0 == [visited |-> {did} \cup {directTrusters[i] :
                                          i \in 1..Len(directTrusters)},
                transitive |-> {},
                tscore |-> 0,
                queue |-> [i \in 1..Len(directTrusters) |->
                             [did |-> directTrusters[i], depth |-> 1,
                              num |-> 1, den |-> 1]]]
        st == ScoreBFSShift(validEdges, st0)
        transitiveScore == Min(st.tscore, TScale) \div (TScale \div Million)
        combinedScore == (directScore * 7 + transitiveScore * 3) \div 10
    IN  [score |-> Min(combinedScore, Million),
         directTrusters |-> Len(directTrusters),
         transitiveTrusters |-> Cardinality(st.transitive),
         transitive |-> st.transitive]

(* No direct call of computeReputationScore has been made. *)
NoScored == [did |-> NoDid, at |-> NULL, edges |-> <<>>,
             indexed |-> [score |-> 0, directTrusters |-> 0,
                          transitiveTrusters |-> 0, transitive |-> {}],
             filtering |-> [score |-> 0, directTrusters |-> 0,
                            transitiveTrusters |-> 0, transitive |-> {}]]

----------------------------------------------------------------------------
(* Attestation payloads and Ed25519 signatures of create-trust requests.   *)
(* A payload is the parsed content of the JSON string (json = FALSE: the   *)
(* string is not JSON).  A signature names the key that made it and the    *)
(* bytes it was made over; len64 = FALSE is a string that does not decode  *)
(* to 64 bytes.                                                            *)

PayloadLevels == {0, 100}

NoPayload == [json |-> FALSE, issuerDid |-> NoDid, subjectDid |-> NoDid,
              trustLevel |-> 0]

Payloads ==
    [json : {TRUE}, issuerDid : RequestDids, subjectDid : RequestDids,
     trustLevel : PayloadLevels]
    \cup {NoPayload}

NoSignature == [len64 |-> FALSE, signer |-> NoKey, msg |-> NoPayload]

Signatures == [len64 : {TRUE}, signer : Keys, msg : Payloads]
                  \cup {NoSignature}

(* ed25519.verifyAsync(signatureBytes, payloadBytes, publicKeyBytes) *)
verifyAsync(signature, payload, publicKey) ==
    signature.signer = publicKey /\ signature.msg = payload

----------------------------------------------------------------------------
(* Database rows and handler records *)

NoRow == [did |-> NoDid, score |-> 0, directTrusters |-> 0,
          transitiveTrusters |-> 0, lastComputed |-> NULL]

(* An ensureIdentity call: its position, the error it rejected with, the  *)
(* outcome of its registry fetch and (history) whether that fetch was the *)
(* first call after an open period of the breaker had elapsed.            *)
NoTask == [pc |-> "none", error |-> "", fetched |-> "", probe |-> FALSE,
           startedAt |-> NULL]

IdleHandler ==
    [op |-> "idle", pc |-> "idle",
     issuerDid |-> NoDid, subjectDid |-> NoDid, trustLevel |-> 0,
     expiresAt |-> NULL, signature |-> NoSignature, payload |-> NoPayload,
     ens |-> [issuer |-> NoTask, subject |-> NoTask],
     did |-> NoDid, tNow |-> NULL, result |-> NoRow, returned |-> NoRow,
     committedMax |-> 0, basis |-> 0,
     outcome |-> ""]

Roles == {"issuer", "subject"}

RoleDid(h, role) ==
    IF role = "issuer" THEN handlers[h].issuerDid ELSE handlers[h].subjectDid

IdentityRows(did) == {row \in identities : row.did = did}

ScoreRows(did) == {row \in reputationScores : row.did = did}

EdgeExists(source, target) ==
    \E i \in 1..Len(trustEdges) :
        trustEdges[i].sourceDid = source /\ trustEdges[i].targetDid = target

(* Variant: the breaker check compares against the time the breaker was  *)
(* opened instead of the time it stays open until.                       *)
circuitOpen_OpenedAt == now < circuitBreaker.openUntil - CIRCUIT_BREAKER_RESET

(* Date.now() < this.circuitBreaker.openUntil *)
circuitOpen == now < circuitBreaker.openUntil

(* cached && (Date.now() - cached.cachedAt) < IDENTITY_CACHE_TTL_MS *)
IdentityCached(did) ==
    /\ identityCache[did] # NULL
    /\ now - identityCache[did] < IDENTITY_CACHE_TTL

(* Promise.all over the two ensureIdentity calls: the first rejection     *)
(* rejects createTrust (the other call keeps running); when both have     *)
(* resolved, createTrust goes on to load the issuer's row.                *)
PromiseAll(r) ==
    IF r.pc # "ensure" THEN r
    ELSE IF r.ens.issuer.pc = "failed"
         THEN [r EXCEPT !.pc = "done", !.outcome = r.ens.issuer.error]
    ELSE IF r.ens.subject.pc = "failed"
         THEN [r EXCEPT !.pc = "done", !.outcome = r.ens.subject.error]
    ELSE IF r.ens.issuer.pc = "done" /\ r.ens.subject.pc = "done"
         THEN [r EXCEPT !.pc = "verify"]
    ELSE r

SetTask(h, role, task) ==
    handlers' = [handlers EXCEPT
        ![h] = PromiseAll([handlers[h] EXCEPT !.ens[role] = task])]

----------------------------------------------------------------------------
(* Path finding: findTrustPath and its helpers (graph.ts, edge-utils.ts).  *)
(* cumulativeTrust, a product of doubles, is kept as its factors: the     *)
(* trust levels multiplied in (each divided by 100) and the exponent of   *)
(* DEFAULT_TRUST_DECAY.                                                   *)

MAX_TRUST_DEPTH == 6

(* An index that lists the outgoing edges of did in reverse edge order. *)
buildForwardIndex_Reversed(validEdges) ==
    [d \in GraphDids |->
        LET out == SelectSeq(validEdges, LAMBDA e : e.sourceDid = d)
        IN  [i \in 1..Len(out) |-> out[Len(out) + 1 - i]]]

(* adjacency.get(did) || [] : the outgoing edges of did, in edge order *)
buildForwardIndex(validEdges) ==
    [d \in GraphDids |-> SelectSeq(validEdges, LAMBDA e : e.sourceDid = d)]

(* A call that never adds to visited. *)
MarkVisited_Forget(visited, did) == visited

(* visited.add(neighbor.target) *)
MarkVisited(visited, did) == visited \cup {did}

(* A product that leaves the decay out. *)
newCumulativeTrust_NoDecay(current, neighbor) ==
    [levels |-> Append(current.cumulativeTrust.levels, neighbor.trustLevel),
     decay |-> current.cumulativeTrust.decay]

(* current.cumulativeTrust * ((neighbor.trust / 100)                      *)
(*                            * decayPowers[current.depth])               *)
newCumulativeTrust(current, neighbor) ==
    [levels |-> Append(current.cumulativeTrust.levels, neighbor.trustLevel),
     decay |-> current.cumulativeTrust.decay + current.depth]

(* The for-loop over the neighbors of one dequeued item; parent is the    *)
(* position of that item in the queue.                                    *)
RECURSIVE ScanNeighbors(_, _, _, _)
ScanNeighbors(neighbors, current, parent, st) ==
    IF neighbors = <<>> THEN st
    ELSE LET neighbor == Head(neighbors)
         IN  IF neighbor.targetDid \in st.visited
             THEN ScanNeighbors(Tail(neighbors), current, parent, st)
             ELSE ScanNeighbors(Tail(neighbors), current, parent,
                    [visited |-> MarkVisited(st.visited, neighbor.targetDid),
                     queue |-> Append(st.queue,
                        [did |-> neighbor.targetDid,
                         parentIndex |-> parent,
                         trustLevel |-> neighbor.trustLevel,
                         cumulativeTrust |->
                            newCumulativeTrust(current, neighbor),
                         depth |-> current.depth + 1])])

(* A walk that pushes every item twice. *)
RECURSIVE reconstructPath_Twice(_, _)
reconstructPath_Twice(queue, idx) ==
    IF idx = 0 THEN <<>>
    ELSE reconstructPath_Twice(queue, queue[idx].parentIndex)
            \o << [did |-> queue[idx].did,
                   trustLevel |-> queue[idx].trustLevel],
                  [did |-> queue[idx].did,
                   trustLevel |-> queue[idx].trustLevel] >>

(* Walks the parent pointers from the item at idx back to the root; the   *)
(* root has no parent (0 here, -1 in the zero-based source).              *)
RECURSIVE reconstructPath(_, _)
reconstructPath(queue, idx) ==
    IF idx = 0 THEN <<>>
    ELSE Append(reconstructPath(queue, queue[idx].parentIndex),
                [did |-> queue[idx].did,
                 trustLevel |-> queue[idx].trustLevel])

NoResult == [found |-> FALSE, path |-> <<>>, hops |-> 0,
             cumulativeTrust |-> [levels |-> <<>>, decay |-> 0]]

(* No call of findTrustPath has been made. *)
NoSearch ==
    [pc |-> "idle", edges |-> <<>>, fromDid |-> NoDid, toDid |-> NoDid,
     maxDepth |-> 0, calledAt |-> NULL, selectedAt |-> NULL,
     validEdges |-> <<>>,
     queue |-> <<>>, visited |-> {}, head |-> 1, iterations |-> 0,
     result |-> NoResult]

----------------------------------------------------------------------------
(* The service process (index.ts), the IdentityResolver of the SDK and    *)
(* the discovery service, as they are when started.                       *)

(* inFlightRequests = 0, isShuttingDown = false; shutdown() not called *)
NoServer ==
    [isShuttingDown |-> FALSE, inFlightRequests |-> 0, pc |-> "serving",
     deadline |-> NULL, serverClosed |-> FALSE, poolEnded |-> FALSE,
     exited |-> FALSE,
     signals |-> 0, received |-> 0, shutdownAt |-> NULL,
     lastStatus |-> 0, lastDispatched |-> FALSE,
     endCalledAt |-> NULL, inFlightAtEnd |-> 0]

(* new IdentityResolver(options): an empty cache, no call made *)
NoResolution ==
    [cache |-> {}, pc |-> "idle", input |-> "", lookups |-> <<>>,
     outcome |-> "", identity |-> <<>>, calls |-> 0]

(* An empty identities table, no registration received *)
NoDiscovery ==
    [rows |-> {}, status |-> 0, stored |-> FALSE, calls |-> 0,
     body |-> [did |-> [kind |-> "absent", prefixed |-> FALSE,
                        suffix |-> ""],
               publicKey |-> [kind |-> "absent", text |-> <<>>]]]

HostInit ==
    /\ server = NoServer
    /\ resolution = NoResolution
    /\ discovery = NoDiscovery

----------------------------------------------------------------------------
(* Initial state: empty tables, closed breaker, no request in flight *)

Init ==
    /\ SignInit
    /\ search = NoSearch
    /\ scored = NoScored
    /\ HostInit
    /\ now = StartTime
    /\ ticks = 0
    /\ identities = {}
    /\ trustEdges = <<>>
    /\ reputationScores = {}
    /\ identityCache = [d \in DIDs |-> NULL]
    /\ circuitBreaker = [failureCount |-> 0, openUntil |-> 0]
    /\ handlers = [h \in Handlers |-> IdleHandler]
    /\ rowBasis = [d \in DIDs |-> 0]
    /\ firstFailureAt = NULL
    /\ probedFor = 0

----------------------------------------------------------------------------
(* The clock *)

(* Time passes.  A registry fetch is aborted FETCH_TIMEOUT after it was    *)
(* started, so the clock does not run past that deadline while the fetch  *)
(* is pending.                                                            *)
Tick(d) ==
    /\ ticks < MaxTicks
    /\ \A h \in Handlers : \A role \in {"issuer", "subject"} :
          handlers[h].ens[role].pc = "fetch"
              => now + d - handlers[h].ens[role].startedAt <= FETCH_TIMEOUT
    /\ now' = now + d
    /\ ticks' = ticks + 1
    /\ UNCHANGED <<identities, trustEdges, reputationScores, identityCache,
                   circuitBreaker, handlers, rowBasis, firstFailureAt,
                   probedFor>>

----------------------------------------------------------------------------
(* TrustService.createTrust *)

(* The first step of ensureIdentity: the in-memory cache check, then the  *)
(* select on identities is issued.                                        *)
ensureIdentityStart(did) ==
    IF IdentityCached(did) THEN [NoTask EXCEPT !.pc = "done"]
    ELSE [NoTask EXCEPT !.pc = "select"]

(* createTrust up to its first await: validation of the request fields,   *)
(* then the two ensureIdentity calls are started.                         *)
CreateTrustStart(h, issuerDid, subjectDid, trustLevel, expiresAt, hasSignature, hasPayload) ==
    /\ handlers[h].op = "idle"
    /\ Len(trustEdges) < MaxEdges \/ EdgeExists(issuerDid, subjectDid)
    /\ LET rejected(reason) ==
               [IdleHandler EXCEPT !.op = "createTrust", !.pc = "done",
                                   !.outcome = reason]
       IN  handlers' = [handlers EXCEPT ![h] =
             IF trustLevel < MIN_TRUST_LEVEL \/ trustLevel > MAX_TRUST_LEVEL
             THEN rejected("invalid_trust_level")
             ELSE IF issuerDid = NoDid THEN rejected("invalid_issuer_did")
             ELSE IF subjectDid = NoDid THEN rejected("invalid_subject_did")
             ELSE IF ~hasSignature THEN rejected("invalid_signature")
             ELSE IF ~hasPayload THEN rejected("payload_required")
             ELSE PromiseAll(
                   [IdleHandler EXCEPT
                      !.op = "createTrust", !.pc = "ensure",
                      !.issuerDid = issuerDid, !.subjectDid = subjectDid,
                      !.trustLevel = trustLevel, !.expiresAt = expiresAt,
                      !.ens = [issuer |-> ensureIdentityStart(issuerDid),
                               subject |-> ensureIdentityStart(subjectDid)]])]
    /\ UNCHANGED <<now, ticks, identities, trustEdges, reputationScores,
                   identityCache, circuitBreaker, rowBasis, firstFailureAt,
                   probedFor>>

(* ensureIdentity after the select on identities returned: a known        *)
(* identity gets its lastSeen updated; an unknown one is fetched from the *)
(* registry unless the circuit breaker is open.                           *)
EnsureSelect(h, role) ==
    LET task == handlers[h].ens[role]
        isProbe == /\ circuitBreaker.openUntil > 0
                   /\ probedFor # circuitBreaker.openUntil
    IN  /\ task.pc = "select"
        /\ IF IdentityRows(RoleDid(h, role)) = {}
           THEN IF circuitOpen
                THEN /\ SetTask(h, role, [task EXCEPT !.pc = "failed",
                                              !.error = "circuit_open"])
                     /\ UNCHANGED probedFor
                ELSE /\ SetTask(h, role, [task EXCEPT !.pc = "fetch",
                                              !.probe = isProbe,
                                              !.startedAt = now])
                     /\ probedFor' = circuitBreaker.openUntil
           ELSE /\ SetTask(h, role, [task EXCEPT !.pc = "update"])
                /\ UNCHANGED probedFor
        /\ UNCHANGED <<now, ticks, identities, trustEdges, reputationScores,
                       identityCache, circuitBreaker, rowBasis, firstFailureAt>>

(* Variant: the breaker opens only above the threshold. *)
RecordFailure_Strict(cb) ==
    LET count == cb.failureCount + 1
    IN  [failureCount |-> count,
         openUntil |-> IF count > CIRCUIT_BREAKER_THRESHOLD
                       THEN now + CIRCUIT_BREAKER_RESET
                       ELSE cb.openUntil]

(* What a rejected fetch does to the breaker (the catch block). *)
RecordFailure(cb) ==
    LET count == cb.failureCount + 1
    IN  [failureCount |-> count,
         openUntil |-> IF count >= CIRCUIT_BREAKER_THRESHOLD
                       THEN now + CIRCUIT_BREAKER_RESET
                       ELSE cb.openUntil]

(* What an ok response does to the breaker. *)
RecordSuccess(cb) == [cb EXCEPT !.failureCount = 0]

(* ensureIdentity after the registry fetch settled.                       *)
(*   ok       : 2xx with an identity that has a public key                *)
(*   ok_nokey : 2xx whose body has no publicKey                           *)
(*   not_ok   : a non-2xx response (404, 500)                             *)
(*   throw    : network error, abort at the 3 s deadline, unparsable body *)
FetchSettled(h, role, outcome) ==
    /\ outcome = "throw" => circuitBreaker.failureCount < MaxFailureCount
    /\ circuitBreaker' =
         IF outcome \in {"ok", "ok_nokey"} THEN RecordSuccess(circuitBreaker)
         ELSE IF outcome = "throw" THEN RecordFailure(circuitBreaker)
         ELSE circuitBreaker
    /\ IF outcome = "ok"
       THEN SetTask(h, role, [handlers[h].ens[role] EXCEPT
                                 !.pc = "insert", !.fetched = outcome,
                                 !.startedAt = NULL])
       ELSE SetTask(h, role, [handlers[h].ens[role] EXCEPT
                                 !.pc = "failed", !.fetched = outcome,
                                 !.startedAt = NULL,
                                 !.error = "identity_not_found"])
    /\ firstFailureAt' =
         IF outcome \in {"ok", "ok_nokey"} THEN NULL
         ELSE IF outcome = "throw" /\ circuitBreaker.failureCount = 0 THEN now
         ELSE firstFailureAt
    /\ UNCHANGED <<now, ticks, identities, trustEdges, reputationScores,
                   identityCache, rowBasis, probedFor>>

(* The response and its body arrive in one step, within the deadline. *)
EnsureFetchDone(h, role, outcome) ==
    /\ handlers[h].ens[role].pc = "fetch"
    /\ FetchSettled(h, role, outcome)

(* ensureIdentity: the insert into identities (primary key did), then the *)
(* identity is cached.                                                    *)
EnsureInsert(h, role) ==
    LET did == RoleDid(h, role)
    IN  /\ handlers[h].ens[role].pc = "insert"
        /\ IF IdentityRows(did) # {}
           THEN /\ SetTask(h, role, [handlers[h].ens[role] EXCEPT
                                         !.pc = "failed",
                                         !.error = "db_error"])
                /\ UNCHANGED <<identities, identityCache>>
           ELSE /\ identities' = identities \cup
                       {[did |-> did, publicKey |-> RegistryKey(did)]}
                /\ identityCache' = [identityCache EXCEPT ![did] = now]
                /\ SetTask(h, role, [handlers[h].ens[role] EXCEPT
                                         !.pc = "done"])
        /\ UNCHANGED <<now, ticks, trustEdges, reputationScores,
                       circuitBreaker, rowBasis, firstFailureAt, probedFor>>

(* ensureIdentity: the update of lastSeen (a column nothing reads, left   *)
(* out of the rows), then the identity is cached.                         *)
EnsureUpdate(h, role) ==
    LET did == RoleDid(h, role)
    IN  /\ handlers[h].ens[role].pc = "update"
        /\ identityCache' = [identityCache EXCEPT ![did] = now]
        /\ SetTask(h, role, [handlers[h].ens[role] EXCEPT !.pc = "done"])
        /\ UNCHANGED <<now, ticks, identities, trustEdges, reputationScores,
                       circuitBreaker, rowBasis, firstFailureAt, probedFor>>

(* Variant: the payload's trustLevel is not compared with the request's. *)
VerifyAttestation_NoLevelCheck(r, signature, payload) ==
    LET issuerIdentity == IdentityRows(r.issuerDid)
    IN  IF issuerIdentity = {} THEN "issuer_not_found"
        ELSE IF ~signature.len64 THEN "invalid_signature_format"
        ELSE IF ~verifyAsync(signature, payload,
                             (CHOOSE row \in issuerIdentity : TRUE).publicKey)
             THEN "invalid_signature"
        ELSE IF ~payload.json THEN "invalid_payload"
        ELSE IF payload.issuerDid # r.issuerDid THEN "issuerDid_mismatch"
        ELSE IF payload.subjectDid # r.subjectDid THEN "subjectDid_mismatch"
        ELSE ""

(* The checks createTrust makes on signature and payload, in order; "" if *)
(* all pass.                                                              *)
VerifyAttestation(r, signature, payload) ==
    LET issuerIdentity == IdentityRows(r.issuerDid)
    IN  IF issuerIdentity = {} THEN "issuer_not_found"
        ELSE IF ~signature.len64 THEN "invalid_signature_format"
        ELSE IF ~verifyAsync(signature, payload,
                             (CHOOSE row \in issuerIdentity : TRUE).publicKey)
             THEN "invalid_signature"
        ELSE IF ~payload.json THEN "invalid_payload"
        ELSE IF payload.issuerDid # r.issuerDid THEN "issuerDid_mismatch"
        ELSE IF payload.subjectDid # r.subjectDid THEN "subjectDid_mismatch"
        ELSE IF payload.trustLevel # r.trustLevel THEN "trustLevel_mismatch"
        ELSE ""

(* createTrust after the issuer's row was loaded: signature check and     *)
(* semantic binding; then the insert of the edge is issued.  The request  *)
(* fields signature and payload are first read here.                      *)
CreateTrustVerify(h, signature, payload) ==
    /\ handlers[h].pc = "verify"
    /\ LET reason == VerifyAttestation(handlers[h], signature, payload)
       IN  handlers' = [handlers EXCEPT ![h] =
             IF reason # ""
             THEN [@ EXCEPT !.pc = "done", !.outcome = reason]
             ELSE [@ EXCEPT !.pc = "insert", !.signature = signature,
                            !.payload = payload]]
    /\ UNCHANGED <<now, ticks, identities, trustEdges, reputationScores,
                   identityCache, circuitBreaker, rowBasis, firstFailureAt,
                   probedFor>>

(* db.insert(trustEdges).values(...) : a plain insert; the table has      *)
(* UNIQUE(source_did, target_did), so a second row for a pair is refused. *)
InsertEdge(edges, row) ==
    IF \E i \in 1..Len(edges) :
          edges[i].sourceDid = row.sourceDid
          /\ edges[i].targetDid = row.targetDid
    THEN [ok |-> FALSE, edges |-> edges]
    ELSE [ok |-> TRUE, edges |-> Append(edges, row)]

CreateTrustInsert(h) ==
    LET r == handlers[h]
        ins == InsertEdge(trustEdges,
                 [sourceDid |-> r.issuerDid, targetDid |-> r.subjectDid,
                  trustLevel |-> r.trustLevel, expiresAt |-> r.expiresAt,
                  revokedAt |-> NULL])
    IN  /\ r.pc = "insert"
        /\ trustEdges' = ins.edges
        /\ handlers' = [handlers EXCEPT ![h] =
             IF ins.ok THEN [@ EXCEPT !.pc = "invalidate"]
             ELSE [@ EXCEPT !.pc = "done", !.outcome = "db_error_unique"]]
        /\ UNCHANGED <<now, ticks, identities, reputationScores,
                       identityCache, circuitBreaker, rowBasis, firstFailureAt,
                   probedFor>>

(* The cache invalidation: lastComputed = new Date(0) on the subject's    *)
(* row, if there is one; then createTrust returns the edge id.            *)
InvalidateScore(rows, did) ==
    {IF row.did = did THEN [row EXCEPT !.lastComputed = 0] ELSE row :
       row \in rows}

CreateTrustInvalidate(h) ==
    /\ handlers[h].pc = "invalidate"
    /\ reputationScores' =
           InvalidateScore(reputationScores, handlers[h].subjectDid)
    /\ handlers' = [handlers EXCEPT ![h].pc = "done", ![h].outcome = "ok"]
    /\ UNCHANGED <<now, ticks, identities, trustEdges, identityCache,
                   circuitBreaker, rowBasis, firstFailureAt, probedFor>>

(* The response is sent; the handler ends once both ensureIdentity calls  *)
(* have settled.                                                          *)
Return(h) ==
    /\ handlers[h].pc = "done"
    /\ \A role \in Roles :
           handlers[h].ens[role].pc \in {"none", "done", "failed"}
    /\ handlers' = [handlers EXCEPT ![h] = IdleHandler]
    /\ UNCHANGED <<now, ticks, identities, trustEdges, reputationScores,
                   identityCache, circuitBreaker, rowBasis, firstFailureAt,
                   probedFor>>

----------------------------------------------------------------------------
(* TrustService.getScore *)

(* History: the highest index of an edge into did whose createTrust has   *)
(* already returned (0 if none).                                          *)
CommittedMax(did) ==
    LET committed == {i \in 1..Len(trustEdges) :
            /\ trustEdges[i].targetDid = did
            /\ ~\E g \in Handlers :
                  /\ handlers[g].pc = "invalidate"
                  /\ handlers[g].issuerDid = trustEdges[i].sourceDid
                  /\ handlers[g].subjectDid = trustEdges[i].targetDid}
    IN  IF committed = {} THEN 0
        ELSE CHOOSE i \in committed : \A j \in committed : j <= i

(* getScore is called; the select on reputation_scores is issued. *)
GetScoreStart(h, did) ==
    /\ handlers[h].op = "idle"
    /\ handlers' = [handlers EXCEPT ![h] =
           [IdleHandler EXCEPT !.op = "getScore", !.pc = "readCache",
                               !.did = did,
                               !.committedMax = CommittedMax(did)]]
    /\ UNCHANGED <<now, ticks, identities, trustEdges, reputationScores,
                   identityCache, circuitBreaker, rowBasis, firstFailureAt,
                   probedFor>>

(* cached.length > 0 && (now - cached[0].lastComputed) < 3600000 *)
cacheValid(cached, tNow) ==
    /\ cached # {}
    /\ \A row \in cached : tNow - row.lastComputed < SCORE_CACHE_TTL

(* getScore after the cached row was read: a valid row is returned as it  *)
(* is; otherwise the select on trust_edges is issued.                     *)
GetScoreReadCache(h) ==
    LET cached == ScoreRows(handlers[h].did)
    IN  /\ handlers[h].pc = "readCache"
        /\ handlers' = [handlers EXCEPT ![h] =
             IF cacheValid(cached, now)
             THEN [@ EXCEPT !.pc = "done", !.outcome = "cached",
                            !.tNow = now,
                            !.returned = CHOOSE row \in cached : TRUE,
                            !.basis = rowBasis[handlers[h].did]]
             ELSE [@ EXCEPT !.pc = "readEdges", !.tNow = now]]
        /\ UNCHANGED <<now, ticks, identities, trustEdges, reputationScores,
                       identityCache, circuitBreaker, rowBasis, firstFailureAt,
                   probedFor>>

(* The rows the select on trust_edges returns: revokedAt IS NULL AND      *)
(* (expiresAt IS NULL OR expiresAt > scoreNow)                            *)
SelectActiveEdges(edges, scoreNow) ==
    SelectSeq(edges, LAMBDA e :
        /\ e.revokedAt = NULL
        /\ (e.expiresAt = NULL \/ e.expiresAt > scoreNow))

(* getScore after the edges were read: the score is computed and the      *)
(* upsert of the row is issued.                                           *)
GetScoreReadEdges(h) ==
    LET r == handlers[h]
        edges == SelectActiveEdges(trustEdges, r.tNow)
        result == computeReputationScore(edges, r.did, now)
    IN  /\ r.pc = "readEdges"
        /\ handlers' = [handlers EXCEPT ![h] =
             [@ EXCEPT !.pc = "upsert",
                       !.basis = Len(trustEdges),
                       !.result = [did |-> r.did, score |-> result.score,
                           directTrusters |-> result.directTrusters,
                           transitiveTrusters |-> result.transitiveTrusters,
                           lastComputed |-> r.tNow]]]
        /\ UNCHANGED <<now, ticks, identities, trustEdges, reputationScores,
                       identityCache, circuitBreaker, rowBasis, firstFailureAt,
                   probedFor>>

(* insert(reputationScores) ... onConflictDoUpdate(target: did); the did  *)
(* column references identities(did).                                     *)
UpsertScore(rows, row) ==
    IF IdentityRows(row.did) = {}
    THEN [ok |-> FALSE, rows |-> rows]
    ELSE [ok |-> TRUE,
          rows |-> {x \in rows : x.did # row.did} \cup {row}]

GetScoreUpsert(h) ==
    LET r == handlers[h]
        ups == UpsertScore(reputationScores, r.result)
    IN  /\ r.pc = "upsert"
        /\ reputationScores' = ups.rows
        /\ rowBasis' = IF ups.ok THEN [rowBasis EXCEPT ![r.did] = r.basis]
                       ELSE rowBasis
        /\ handlers' = [handlers EXCEPT ![h] =
             IF ups.ok
             THEN [@ EXCEPT !.pc = "done", !.outcome = "fresh",
                            !.returned = r.result]
             ELSE [@ EXCEPT !.pc = "done", !.outcome = "db_error_fk"]]
        /\ UNCHANGED <<now, ticks, identities, trustEdges, identityCache,
                       circuitBreaker, firstFailureAt, probedFor>>

----------------------------------------------------------------------------------------------------------------------------------------
(* The trust-graph service, started on an empty database: identity        *)
(* materialization and the circuit breaker.  Every request is a           *)
(* create-trust request with well-formed fields, carrying the attestation *)
(* its issuer signed with the key the registry holds for it.              *)

BreakerTickDeltas == {1, 29}

(* The attestation a client makes for its request: the payload naming the *)
(* request's fields, signed with the issuer's key.                        *)
AttestationPayload(r) ==
    [json |-> TRUE, issuerDid |-> r.issuerDid, subjectDid |-> r.subjectDid,
     trustLevel |-> r.trustLevel]

AttestationSignature(r) ==
    [len64 |-> TRUE, signer |-> RegistryKey(r.issuerDid),
     msg |-> AttestationPayload(r)]

NextBreaker ==
    \/ UNCHANGED <<svars, gvars, hvars>> /\ \E d \in BreakerTickDeltas : Tick(d)
    \/ UNCHANGED <<svars, gvars, hvars>> /\ \E h \in CreateHandlers, issuerDid \in RequestDids,
             subjectDid \in SubjectDids :
             CreateTrustStart(h, issuerDid, subjectDid, 100, NULL, TRUE, TRUE)
    \/ UNCHANGED <<svars, gvars, hvars>> /\ \E h \in Handlers, role \in Roles : EnsureSelect(h, role)
    \/ UNCHANGED <<svars, gvars, hvars>> /\ \E h \in Handlers, role \in Roles, outcome \in FetchOutcomes :
             EnsureFetchDone(h, role, outcome)
    \/ UNCHANGED <<svars, gvars, hvars>> /\ \E h \in Handlers, role \in Roles : EnsureInsert(h, role)
    \/ UNCHANGED <<svars, gvars, hvars>> /\ \E h \in Handlers, role \in Roles : EnsureUpdate(h, role)
    \/ UNCHANGED <<svars, gvars, hvars>> /\ \E h \in Handlers :
             CreateTrustVerify(h, AttestationSignature(handlers[h]),
                               AttestationPayload(handlers[h]))
    \/ UNCHANGED <<svars, gvars, hvars>> /\ \E h \in Handlers : CreateTrustInsert(h)
    \/ UNCHANGED <<svars, gvars, hvars>> /\ \E h \in Handlers : CreateTrustInvalidate(h)
    \/ UNCHANGED <<svars, gvars, hvars>> /\ \E h \in Handlers : Return(h)

SpecBreaker == Init /\ [][NextBreaker]_vars

----------------------------------------------------------------------------
(* The trust-graph service, restarted on a database that already holds    *)
(* the identity rows: no registry fetch is needed, the breaker stays      *)
(* closed.                                                                *)

InitSeeded ==
    /\ SignInit
    /\ search = NoSearch
    /\ scored = NoScored
    /\ HostInit
    /\ now = StartTime
    /\ ticks = 0
    /\ identities = {[did |-> d, publicKey |-> RegistryKey(d)] :
                        d \in RequestDids}
    /\ trustEdges = <<>>
    /\ reputationScores = {}
    /\ identityCache = [d \in DIDs |-> NULL]
    /\ circuitBreaker = [failureCount |-> 0, openUntil |-> 0]
    /\ handlers = [h \in Handlers |-> IdleHandler]
    /\ rowBasis = [d \in DIDs |-> 0]
    /\ firstFailureAt = NULL
    /\ probedFor = 0

TrustTickDeltas == {1800}

(* The signatures a request may carry along with a payload: none of the   *)
(* right length, one over that payload, or one over some other text, by   *)
(* either key.                                                            *)
SignaturesFor(payload) ==
    {s \in Signatures : s = NoSignature \/ s.msg \in {payload, NoPayload}}

(* Create-trust requests of every shape, one after the other: fields out  *)
(* of range or missing, attestations that do not fit the request.         *)
NextAttest ==
    \/ UNCHANGED <<svars, gvars, hvars>> /\ \E d \in TrustTickDeltas : Tick(d)
    \/ UNCHANGED <<svars, gvars, hvars>> /\ \E h \in CreateHandlers, issuerDid \in RequestDids \cup {NoDid},
             subjectDid \in SubjectDids \cup {NoDid}, trustLevel \in TrustLevels,
             hasSignature \in BOOLEAN, hasPayload \in BOOLEAN :
             CreateTrustStart(h, issuerDid, subjectDid, trustLevel, NULL,
                              hasSignature, hasPayload)
    \/ UNCHANGED <<svars, gvars, hvars>> /\ \E h \in Handlers, role \in Roles : EnsureSelect(h, role)
    \/ UNCHANGED <<svars, gvars, hvars>> /\ \E h \in Handlers, role \in Roles : EnsureUpdate(h, role)
    \/ UNCHANGED <<svars, gvars, hvars>> /\ \E h \in Handlers, payload \in Payloads :
             \E signature \in SignaturesFor(payload) :
                CreateTrustVerify(h, signature, payload)
    \/ UNCHANGED <<svars, gvars, hvars>> /\ \E h \in Handlers : CreateTrustInsert(h)
    \/ UNCHANGED <<svars, gvars, hvars>> /\ \E h \in Handlers : CreateTrustInvalidate(h)
    \/ UNCHANGED <<svars, gvars, hvars>> /\ \E h \in Handlers : Return(h)

SpecAttest == InitSeeded /\ [][NextAttest]_vars

(* Well-formed create-trust requests and score requests, running          *)
(* concurrently.                                                          *)
NextScore ==
    \/ UNCHANGED <<svars, gvars, hvars>> /\ \E d \in TrustTickDeltas : Tick(d)
    \/ UNCHANGED <<svars, gvars, hvars>> /\ \E h \in CreateHandlers, issuerDid \in RequestDids,
             subjectDid \in SubjectDids :
             CreateTrustStart(h, issuerDid, subjectDid, 100, NULL, TRUE, TRUE)
    \/ UNCHANGED <<svars, gvars, hvars>> /\ \E h \in Handlers, role \in Roles : EnsureSelect(h, role)
    \/ UNCHANGED <<svars, gvars, hvars>> /\ \E h \in Handlers, role \in Roles : EnsureUpdate(h, role)
    \/ UNCHANGED <<svars, gvars, hvars>> /\ \E h \in Handlers :
             CreateTrustVerify(h, AttestationSignature(handlers[h]),
                               AttestationPayload(handlers[h]))
    \/ UNCHANGED <<svars, gvars, hvars>> /\ \E h \in Handlers : CreateTrustInsert(h)
    \/ UNCHANGED <<svars, gvars, hvars>> /\ \E h \in Handlers : CreateTrustInvalidate(h)
    \/ UNCHANGED <<svars, gvars, hvars>> /\ \E h \in ScoreHandlers, did \in ScoreDids : GetScoreStart(h, did)
    \/ UNCHANGED <<svars, gvars, hvars>> /\ \E h \in Handlers : GetScoreReadCache(h)
    \/ UNCHANGED <<svars, gvars, hvars>> /\ \E h \in Handlers : GetScoreReadEdges(h)
    \/ UNCHANGED <<svars, gvars, hvars>> /\ \E h \in Handlers : GetScoreUpsert(h)
    \/ UNCHANGED <<svars, gvars, hvars>> /\ \E h \in Handlers : Return(h)

SpecScore == InitSeeded /\ [][NextScore]_vars

----------------------------------------------------------------------------
(* Properties of createTrust and getScore *)

(* C2: createTrust upserts on (source, target): a valid create-trust      *)
(* request for a pair that already has an edge succeeds, and the edge     *)
(* table never holds two edges for one directed pair.                     *)
C2_ReplayUpserts ==
    /\ \A i, j \in 1..Len(trustEdges) :
          (/\ trustEdges[i].sourceDid = trustEdges[j].sourceDid
           /\ trustEdges[i].targetDid = trustEdges[j].targetDid) => i = j
    /\ \A h \in Handlers :
          (handlers[h].op = "createTrust" /\ handlers[h].pc = "done")
              => handlers[h].outcome # "db_error_unique"

(* C6: a score request for S that starts after a createTrust for S has    *)
(* returned gets a score computed from an edge set that contains the new  *)
(* edge, never a row computed before it.                                  *)
C6_NextScoreSeesNewEdge ==
    \A h \in Handlers :
        (/\ handlers[h].op = "getScore"
         /\ handlers[h].pc = "done"
         /\ handlers[h].outcome \in {"cached", "fresh"})
            => handlers[h].basis >= handlers[h].committedMax

(* C7: getScore(S) returns the cached row, without recomputing or         *)
(* writing, exactly when a row for S exists with now - lastComputed < 1   *)
(* hour; otherwise it recomputes from the current valid edges and upserts *)
(* the row with lastComputed = now.                                       *)
C7_CachePolicy ==
    /\ [][\A h \in Handlers :
            (handlers[h].pc = "readCache" /\ handlers'[h].pc # "readCache")
            => LET did == handlers[h].did
                   fresh == \E row \in reputationScores :
                               /\ row.did = did
                               /\ now - row.lastComputed < 3600
               IN  /\ fresh <=> (/\ handlers'[h].pc = "done"
                                 /\ handlers'[h].outcome = "cached")
                   /\ fresh => /\ handlers'[h].returned \in reputationScores
                               /\ handlers'[h].returned.did = did
                               /\ reputationScores' = reputationScores
                   /\ ~fresh => handlers'[h].pc = "readEdges"]_vars
    /\ [][\A h \in Handlers :
            (handlers[h].pc = "readEdges" /\ handlers'[h].pc # "readEdges")
            => LET valid == SelectSeq(trustEdges, LAMBDA e :
                               /\ e.revokedAt = NULL
                               /\ (e.expiresAt = NULL \/ e.expiresAt > now))
                   fresh == computeReputationScore(valid, handlers[h].did,
                                                   now)
               IN  /\ handlers'[h].result.score = fresh.score
                   /\ handlers'[h].result.directTrusters
                          = fresh.directTrusters
                   /\ handlers'[h].result.transitiveTrusters
                          = fresh.transitiveTrusters]_vars
    /\ [][\A h \in Handlers :
            (handlers[h].pc = "upsert" /\ handlers'[h].pc # "upsert")
            => /\ handlers'[h].outcome = "fresh"
               /\ handlers'[h].returned = handlers[h].result
               /\ handlers'[h].returned.lastComputed = handlers[h].tNow
               /\ handlers'[h].returned \in reputationScores'
               /\ \A row \in reputationScores' :
                     row.did = handlers[h].did
                         => row = handlers'[h].returned]_vars

----------------------------------------------------------------------------
(* Properties of the circuit breaker *)

(* C3: the breaker goes from closed to open exactly when 5 registry       *)
(* fetches have failed within one 30-second window: the failure that      *)
(* opens it is the fifth and lies at most 30 s after the first of them;   *)
(* failures further apart leave it closed.                                *)
C3_OpensOnFiveFailuresInWindow ==
    [][(/\ ~(now < circuitBreaker.openUntil)
        /\ circuitBreaker.failureCount < CIRCUIT_BREAKER_THRESHOLD
        /\ now' < circuitBreaker'.openUntil)
       => /\ circuitBreaker'.failureCount = CIRCUIT_BREAKER_THRESHOLD
          /\ firstFailureAt' # NULL
          /\ now' - firstFailureAt' <= CIRCUIT_BREAKER_RESET]_vars

(* C3 as the code has it: a breaker that is not open becomes open exactly *)
(* in a step in which a registry fetch is rejected and the count of       *)
(* rejected fetches since the last ok response thereby reaches 5 or more, *)
(* however far apart those failures lie.                                  *)
C3_OpensAtThreshold ==
    [][~(now < circuitBreaker.openUntil)
       => ((now' < circuitBreaker'.openUntil)
            <=> (/\ circuitBreaker'.failureCount
                       = circuitBreaker.failureCount + 1
                 /\ circuitBreaker'.failureCount
                       >= CIRCUIT_BREAKER_THRESHOLD))]_vars

(* C3 witness: the breaker was opened by a fifth failure that came more   *)
(* than 30 s after the first.                                             *)
C3_Witness ==
    /\ now < circuitBreaker.openUntil
    /\ circuitBreaker.failureCount = CIRCUIT_BREAKER_THRESHOLD
    /\ firstFailureAt # NULL
    /\ (circuitBreaker.openUntil - CIRCUIT_BREAKER_RESET) - firstFailureAt
           > CIRCUIT_BREAKER_RESET

(* C4: while the breaker is open, which it is for 30 s from the failure   *)
(* that opened it, an ensureIdentity for a DID with no stored row starts  *)
(* no registry fetch and fails with the circuit-breaker-open error, and   *)
(* its createTrust is rejected.                                           *)
C4_OpenBreakerFailsFast ==
    /\ [][\A h \in Handlers : \A role \in Roles :
            LET open == now < circuitBreaker.openUntil
                before == handlers[h].ens[role]
                after == handlers'[h].ens[role]
                stored == \E row \in identities :
                             row.did = handlers[h][role \o "Did"]
            IN  /\ (open /\ after.pc = "fetch") => before.pc = "fetch"
                /\ (/\ open /\ ~stored
                    /\ before.pc = "select" /\ after.pc # "select")
                   => /\ after.pc = "failed"
                      /\ after.error = "circuit_open"
                      /\ handlers'[h].pc = "done"
                      /\ handlers'[h].outcome \notin {"", "ok"}
                      /\ handlers[h].pc = "ensure"
                            => handlers'[h].outcome = "circuit_open"]_vars
    /\ [][circuitBreaker'.openUntil # circuitBreaker.openUntil
            => circuitBreaker'.openUntil = now + 30]_vars

(* C4 witness: a createTrust was rejected by the open breaker. *)
C4_Witness ==
    \E h \in Handlers :
        /\ handlers[h].op = "createTrust"
        /\ handlers[h].pc = "done"
        /\ handlers[h].outcome = "circuit_open"
        /\ now < circuitBreaker.openUntil

(* C5: the first registry fetch started after the open period has        *)
(* elapsed decides the breaker: when it gets an ok response the breaker   *)
(* is closed with the failure count at 0, when it is rejected the breaker *)
(* is open for another 30 s.                                              *)
C5_ProbeDecides ==
    [][\A h \in Handlers : \A role \in Roles :
          LET before == handlers[h].ens[role]
              after == handlers'[h].ens[role]
          IN  (before.pc = "fetch" /\ before.probe /\ after.pc # "fetch")
              => /\ after.fetched \in {"ok", "ok_nokey"}
                    => /\ circuitBreaker'.failureCount = 0
                       /\ ~(now' < circuitBreaker'.openUntil)
                 /\ after.fetched = "throw"
                    => /\ now' < circuitBreaker'.openUntil
                       /\ circuitBreaker'.openUntil = now + 30]_vars

----------------------------------------------------------------------------
(* The SDK: one signer, the network, one verifier. *)

SignTickDeltas == {331}

(* Time is let pass once a request has been signed: signRequest and      *)
(* verifyRequest read the clock, and only the time between them matters. *)
NextSign ==
    \/ \E d \in SignTickDeltas : sent.ok /\ Tick(d) /\ UNCHANGED <<svars, gvars, hvars>>
    \/ \E request \in SignableRequests, privateKey \in SigningKeys,
          options \in SignOptions :
          SignRequest(request, privateKey, options)
    \/ \E method \in TamperMethods : TamperMethod(method)
    \/ \E url \in TamperUrls : TamperUrl(url)
    \/ \E i \in 1..3, value \in TamperValues : TamperHeader(i, value)
    \/ \E body \in TamperBodies : TamperBody(body)
    \/ \E publicKey \in PublicKeys, options \in VerifyOptions :
          VerifyRequest(publicKey, options)

SpecSign == Init /\ [][NextSign]_vars

(* C1: a verifier with a nonce store that has accepted a signed request   *)
(* rejects the same request when it is submitted again, with the replay   *)
(* error.                                                                 *)
C1_ReplayRejected ==
    (/\ verdict.n > 0
     /\ verdict.replay
     /\ verdict.fresh
     /\ verdict.publicKey = getPublicKey(sent.made.key))
        => /\ ~verdict.valid
           /\ verdict.error = "Replay detected: nonce already used"

(* C9: what signRequest returns, verified unchanged with the public key   *)
(* of the signing key before it expires, is valid, whatever the request   *)
(* and the sign options were.                                             *)
C9_SignThenVerify ==
    (/\ verdict.n > 0
     /\ verdict.untampered
     /\ verdict.fresh
     /\ ~verdict.replay
     /\ verdict.publicKey = getPublicKey(sent.made.key))
        => verdict.valid

(* C10: a request in which a signed component (a derived component or a   *)
(* signed header) has another value than when it was signed does not      *)
(* verify.                                                                *)
C10_TamperingDetected ==
    (verdict.n > 0 /\ verdict.signedChanged) => ~verdict.valid

(* C10 witness: a request signed, changed in a signed component and       *)
(* rejected because the signature no longer fits.                         *)
C10_Witness ==
    /\ verdict.n > 0
    /\ verdict.signedChanged
    /\ verdict.fresh
    /\ verdict.publicKey = getPublicKey(sent.made.key)
    /\ ~verdict.valid
    /\ verdict.error = "Signature verification failed"

(* C11: a request signed with a body, whose body is replaced by another   *)
(* body value on the way while everything else (Content-Digest included)  *)
(* stays as signed, is rejected with the Content-Digest mismatch error    *)
(* when it is verified in time with the signer's public key.              *)
C11_BodyTamperingDetected ==
    (/\ verdict.n > 0
     /\ sent.request.body # ""
     /\ wire.body # sent.request.body
     /\ wire = [sent.request EXCEPT !.body = wire.body]
     /\ verdict.fresh
     /\ verdict.publicKey = getPublicKey(sent.made.key))
        => /\ ~verdict.valid
           /\ verdict.error = "Content-Digest mismatch"

----------------------------------------------------------------------------
(* The SDK around the expiry of a signature: requests signed with the     *)
(* default life time, with 0 and with -1 seconds, verified with the       *)
(* default clock drift and with none, at times up to, at and past the     *)
(* second in which the signature expires.                                 *)

NextExpiry ==
    \/ \E d \in {1, 29, 300} : sent.ok /\ Tick(d) /\ UNCHANGED <<svars, gvars, hvars>>
    \/ \E request \in {r \in SignableRequests :
                          r.headers # <<>> /\ r.url # "/relative"},
          expirySeconds \in {<<>>, <<0>>, <<-1>>} :
          SignRequest(request, "skA",
                      [NoOptions EXCEPT !.expirySeconds = expirySeconds])
    \/ \E method \in TamperMethods : TamperMethod(method)
    \/ \E publicKey \in PublicKeys, nonces \in BOOLEAN,
          clockDriftSeconds \in {<<>>, <<0>>} :
          VerifyRequest(publicKey,
                        [nonceStore |-> nonces,
                         clockDriftSeconds |-> clockDriftSeconds])

SpecExpiry == Init /\ [][NextExpiry]_vars

C13_RejectedAfterExpires ==
    [][(/\ verdict'.n = verdict.n + 1
        /\ verdict'.drift = <<>>
        /\ now > sent.params.expires
        /\ KeyLength(verdict'.publicKey) = ED25519_PUBLIC_KEY_LENGTH
        /\ parseSignatureInput(
               HeaderGet(wire.headers, "Signature-Input")).ok)
          => /\ ~verdict'.valid
             /\ verdict'.error = "Signature expired"]_vars

----------------------------------------------------------------------------
(* The SDK with the signature headers rewritten on the way: what a        *)
(* verifier may be handed in place of the Signature-Input and Signature   *)
(* headers of a signed request, and requests with a header missing.       *)

(* Signature-Input values made from the signed one, h, which ends with    *)
(* ;alg="ed25519": another alg, none, an alg parameter after a parameter  *)
(* whose name ends in alg, and texts that are no Signature-Input.         *)
SignatureInputs(h) ==
    LET upToAlg == SubSeq(h, 1, Len(h) - 6)
        alg(name) == <<";", "alg", "=", QUOTE, name, QUOTE>>
    IN  {upToAlg \o alg("rsa-pss-sha512"),
         upToAlg \o alg("ED25519"),
         upToAlg,
         upToAlg \o <<";", "x", "alg", "=", QUOTE, "ed25519", QUOTE>>
                 \o alg("rsa-pss-sha512"),
         <<"garbage">>,
         <<"sig1", "=", "garbage">>}

(* Signature values: bytes that do not decode to a signature, 64 bytes    *)
(* nobody signed, another label, no label at all.                         *)
SignatureHeaders ==
    {<<"sig1", "=", ":", "!!!", ":">>,
     <<"sig1", "=", ":">> \o toBase64(2) \o <<":">>,
     <<"sig2", "=", ":">> \o toBase64(1) \o <<":">>,
     <<"garbage">>}

TamperSignatureInput(value) ==
    Tampered([wire EXCEPT !.headers =
                 HeaderSet(wire.headers, "Signature-Input", value)])

TamperSignature(value) ==
    Tampered([wire EXCEPT !.headers =
                 HeaderSet(wire.headers, "Signature", value)])

(* delete request.headers[name], for the i-th header *)
RemoveHeader(i) ==
    /\ i \in 1..Len(wire.headers)
    /\ Tampered([wire EXCEPT !.headers =
                    SubSeq(wire.headers, 1, i - 1)
                    \o SubSeq(wire.headers, i + 1, Len(wire.headers))])

NextHeaders ==
    \/ \E request \in {r \in SignableRequests : r.url # "/relative"} :
          SignRequest(request, "skA", NoOptions)
    \/ \E value \in SignatureInputs(
                       HeaderGet(wire.headers, "Signature-Input")) :
          TamperSignatureInput(value)
    \/ \E value \in SignatureHeaders : TamperSignature(value)
    \/ \E i \in 1..5 : RemoveHeader(i)
    \/ \E d \in {1, 331} : sent.ok /\ Tick(d) /\ UNCHANGED <<svars, gvars, hvars>>
    \/ \E publicKey \in PublicKeys, options \in VerifyOptions :
          VerifyRequest(publicKey, options)

SpecHeaders == Init /\ [][NextHeaders]_vars

(* C14: a request whose Signature-Input declares an alg, and no alg       *)
(* parameter of which says ed25519, is never found valid, whatever the    *)
(* key, the signature and the other parameters are.                       *)
C14_OnlyEd25519 ==
    LET s == HeaderGet(wire.headers, "Signature-Input")
        P == {i \in 1..Len(s) - 4 :
                 /\ s[i] = ";" /\ s[i + 1] = "alg" /\ s[i + 2] = "="
                 /\ s[i + 3] = QUOTE}
    IN  (/\ verdict.n > 0
         /\ P # {}
         /\ \A i \in P : s[i + 4] # "ed25519")
            => ~verdict.valid

(* C15: verifyRequest answers every input with a result: valid with no    *)
(* error, or not valid with an error text.  It answers not valid to a     *)
(* key of the wrong length, to a request without Signature or             *)
(* Signature-Input header, to a Signature-Input or Signature that cannot  *)
(* be parsed, to a request that lacks a header the signature covers and   *)
(* to a signature that does not decode to 64 bytes.                       *)
C15_AlwaysAResult ==
    verdict.n > 0 =>
        LET signatureInput == HeaderGet(wire.headers, "Signature-Input")
            signature == HeaderGet(wire.headers, "Signature")
            parsed == parseSignatureInput(signatureInput)
        IN  /\ verdict.valid <=> verdict.error = ""
            /\ KeyLength(verdict.publicKey) # ED25519_PUBLIC_KEY_LENGTH
                  => verdict.error = "Invalid public key length"
            /\ (signatureInput = <<>> \/ signature = <<>>)
                  => ~verdict.valid
            /\ ~parsed.ok => ~verdict.valid
            /\ signature \in {<<"garbage">>, <<"sig1", "=", ":", "!!!", ":">>}
                  => ~verdict.valid
            /\ (\E i \in 1..Len(sent.params.components) :
                   ~extractComponent(wire, sent.params.components[i]).ok)
                  => ~verdict.valid

(* C15 witness: a request that lost a header its signature covers was     *)
(* answered with the error extractComponent throws.                       *)
C15_Witness ==
    /\ verdict.n > 0
    /\ ~verdict.valid
    /\ verdict.error = "Header not found"
    /\ \E i \in 1..Len(sent.params.components) :
          ~extractComponent(wire, sent.params.components[i]).ok

----------------------------------------------------------------------------
(* A NonceStore in use: callers hand it nonces, its interval timer runs   *)
(* cleanup.  check and cleanup are synchronous, so each call is one step. *)

MaxChecks == 3

(* store.check(nonce) *)
NonceCheck(nonce) ==
    LET result == check(nonceStore, nonce, now)
    IN  /\ checks[nonce].trues + checks[nonce].falses < MaxChecks
        /\ nonceStore' = result.seen
        /\ checks' = [checks EXCEPT ![nonce] =
             IF result.fresh
             THEN [@ EXCEPT !.trues = @ + 1, !.lastTrueAt = now]
             ELSE [@ EXCEPT !.falses = @ + 1]]
        /\ UNCHANGED <<wire, sent, signatures, verdict, accepted, tvars, gvars, hvars>>

(* The interval timer set by the constructor fires: cleanup().  It first  *)
(* fires one interval after the store was made.                           *)
NonceCleanup ==
    /\ now >= StartTime + CLEANUP_INTERVAL
    /\ nonceStore' = cleanup(nonceStore, now)
    /\ checks' = [n \in Nonces |->
          IF \E e \in nonceStore' : e.nonce = n
          THEN checks[n]
          ELSE [checks[n] EXCEPT !.trues = 0, !.falses = 0]]
    /\ UNCHANGED <<wire, sent, signatures, verdict, accepted, tvars, gvars, hvars>>

NextNonce ==
    \/ \E d \in {1, NONCE_TTL} : Tick(d) /\ UNCHANGED <<svars, gvars, hvars>>
    \/ \E nonce \in Nonces : NonceCheck(nonce)
    \/ NonceCleanup

SpecNonce == Init /\ [][NextNonce]_vars

(* C16: of the check(n) calls made for a nonce n while the store retains  *)
(* it, counting the call that put it there, exactly one returned true     *)
(* and all the others returned false; check is one synchronous step, so   *)
(* no two calls overlap.                                                  *)
C16_ExactlyOneFresh ==
    /\ \A n \in Nonces :
          IF \E e \in nonceStore : e.nonce = n
          THEN checks[n].trues = 1
          ELSE checks[n].trues = 0 /\ checks[n].falses = 0
    /\ \A e1, e2 \in nonceStore : e1.nonce = e2.nonce => e1 = e2

(* C16 witness: a retained nonce was checked three times. *)
C16_Witness ==
    \E n \in Nonces :
        /\ \E e \in nonceStore : e.nonce = n
        /\ checks[n].trues = 1
        /\ checks[n].falses = 2

(* C17: a step removes from the store only entries put there more than    *)
(* the TTL ago; a nonce that check accepted less than the TTL ago is      *)
(* still in the store, and a check of it returns false.                   *)
C17_EvictsOnlyOlderThanTtl ==
    /\ [][\A e \in nonceStore :
             e \notin nonceStore' => now - e.timestamp > NONCE_TTL]_vars
    /\ [](\A n \in Nonces :
             (/\ checks[n].lastTrueAt # NULL
              /\ now - checks[n].lastTrueAt < NONCE_TTL)
                => \E e \in nonceStore :
                      e.nonce = n /\ e.timestamp = checks[n].lastTrueAt)
    /\ [][\A n \in Nonces :
             (/\ checks[n].lastTrueAt # NULL
              /\ now - checks[n].lastTrueAt < NONCE_TTL
              /\ checks'[n].trues + checks'[n].falses
                    = checks[n].trues + checks[n].falses + 1)
                => /\ checks'[n].falses = checks[n].falses + 1
                   /\ checks'[n].trues = checks[n].trues]_vars

(* C17 witness: cleanup has evicted a nonce older than the TTL and kept   *)
(* one that is exactly as old as the TTL.                                 *)
C17_Witness ==
    /\ \E n \in Nonces :
          /\ checks[n].lastTrueAt # NULL
          /\ now - checks[n].lastTrueAt > NONCE_TTL
          /\ ~\E e \in nonceStore : e.nonce = n
    /\ \E e \in nonceStore : now - e.timestamp = NONCE_TTL

----------------------------------------------------------------------------
(* Path finding over a trust_edges table: TrustService.getTrustPath, and  *)
(* findTrustPath called on the rows as they are, as its callers outside   *)
(* the service do.                                                        *)

(* The rows a table may hold: a cycle A -> B -> C -> A, a self-loop, an   *)
(* edge that expires one second after the start, a revoked edge, and a    *)
(* second two-hop way A -> D -> C.  No two rows have the same source and  *)
(* target.                                                                *)
EdgePool ==
    << [sourceDid |-> "A", targetDid |-> "B", trustLevel |-> 80,
        expiresAt |-> NULL, revokedAt |-> NULL],
       [sourceDid |-> "B", targetDid |-> "C", trustLevel |-> 90,
        expiresAt |-> NULL, revokedAt |-> NULL],
       [sourceDid |-> "C", targetDid |-> "A", trustLevel |-> 70,
        expiresAt |-> NULL, revokedAt |-> NULL],
       [sourceDid |-> "A", targetDid |-> "A", trustLevel |-> 100,
        expiresAt |-> NULL, revokedAt |-> NULL],
       [sourceDid |-> "A", targetDid |-> "C", trustLevel |-> 50,
        expiresAt |-> StartTime + 1, revokedAt |-> NULL],
       [sourceDid |-> "C", targetDid |-> "B", trustLevel |-> 60,
        expiresAt |-> NULL, revokedAt |-> StartTime],
       [sourceDid |-> "A", targetDid |-> "D", trustLevel |-> 40,
        expiresAt |-> NULL, revokedAt |-> NULL],
       [sourceDid |-> "D", targetDid |-> "C", trustLevel |-> 100,
        expiresAt |-> NULL, revokedAt |-> NULL] >>

(* The tables: the rows of EdgePool at the positions in S, in that order *)
EdgeTables ==
    { [i \in 1..Cardinality(S) |->
          EdgePool[CHOOSE k \in S : Cardinality({j \in S : j < k}) = i - 1]] :
      S \in SUBSET (1..Len(EdgePool)) }

InitGraph ==
    /\ SignInit
    /\ search = NoSearch
    /\ scored = NoScored
    /\ HostInit
    /\ now = StartTime
    /\ ticks = 0
    /\ identities = {}
    /\ trustEdges \in EdgeTables
    /\ reputationScores = {}
    /\ identityCache = [d \in DIDs |-> NULL]
    /\ circuitBreaker = [failureCount |-> 0, openUntil |-> 0]
    /\ handlers = [h \in Handlers |-> IdleHandler]
    /\ rowBasis = [d \in DIDs |-> 0]
    /\ firstFailureAt = NULL
    /\ probedFor = 0

(* findTrustPath up to its while-loop: the valid edges are filtered with  *)
(* the time of the call, the queue holds the root.                        *)
findTrustPathStart(edges, fromDid, toDid, maxDepth, selectedAt) ==
    [pc |-> "running", edges |-> edges, fromDid |-> fromDid,
     toDid |-> toDid, maxDepth |-> maxDepth, calledAt |-> now,
     selectedAt |-> selectedAt,
     validEdges |-> filterValidEdges(edges, now),
     queue |-> << [did |-> fromDid, parentIndex |-> 0, trustLevel |-> 100,
                   cumulativeTrust |-> [levels |-> <<>>, decay |-> 0],
                   depth |-> 0] >>,
     visited |-> {fromDid}, head |-> 1, iterations |-> 0,
     result |-> NoResult]

(* findTrustPath(edges, fromDid, toDid, maxDepth) on the rows of the table *)
FindTrustPath(fromDid, toDid, maxDepth) ==
    /\ search.pc = "idle"
    /\ search' = findTrustPathStart(trustEdges, fromDid, toDid, maxDepth, NULL)
    /\ UNCHANGED <<tvars, svars, scored, hvars>>

(* getTrustPath: the select of the active edges, which it awaits *)
GetTrustPathSelect(fromDid, toDid) ==
    /\ search.pc = "idle"
    /\ search' = [NoSearch EXCEPT
                    !.pc = "selected",
                    !.edges = SelectActiveEdges(trustEdges, now),
                    !.fromDid = fromDid, !.toDid = toDid,
                    !.selectedAt = now]
    /\ UNCHANGED <<tvars, svars, scored, hvars>>

(* getTrustPath once the rows have arrived: findTrustPath(edges, from, to) *)
GetTrustPathFind ==
    /\ search.pc = "selected"
    /\ search' = findTrustPathStart(search.edges, search.fromDid,
                                    search.toDid, MAX_TRUST_DEPTH,
                                    search.selectedAt)
    /\ UNCHANGED <<tvars, svars, scored, hvars>>

(* One iteration of the while-loop *)
FindTrustPathStep ==
    LET current == search.queue[search.head]
        adjacency == buildForwardIndex(search.validEdges)
        st == ScanNeighbors(adjacency[current.did], current, search.head,
                            [visited |-> search.visited,
                             queue |-> search.queue])
    IN  /\ search.pc = "running"
        /\ search.head <= Len(search.queue)
        /\ search' =
             IF current.did = search.toDid
             THEN [search EXCEPT
                     !.pc = "done", !.head = @ + 1, !.iterations = @ + 1,
                     !.result = [found |-> TRUE,
                         path |-> reconstructPath(search.queue, search.head),
                         hops |-> current.depth,
                         cumulativeTrust |-> current.cumulativeTrust]]
             ELSE IF current.depth >= search.maxDepth
             THEN [search EXCEPT !.head = @ + 1, !.iterations = @ + 1]
             ELSE [search EXCEPT !.head = @ + 1, !.iterations = @ + 1,
                                 !.visited = st.visited, !.queue = st.queue]
        /\ UNCHANGED <<tvars, svars, scored, hvars>>

(* The queue is exhausted: no path found *)
FindTrustPathReturn ==
    /\ search.pc = "running"
    /\ search.head > Len(search.queue)
    /\ search' = [search EXCEPT !.pc = "done", !.result = NoResult]
    /\ UNCHANGED <<tvars, svars, scored, hvars>>

(* findTrustPath is synchronous: no time passes while it runs.  A call    *)
(* keeps nothing for the next one, so one call is followed: time passes   *)
(* before it, and between the select and the call of getTrustPath.        *)
NextGraph ==
    \/ \E d \in {1} : search.pc \in {"idle", "selected"} /\ Tick(d)
                      /\ UNCHANGED <<svars, gvars, hvars>>
    \/ \E fromDid \in DIDs, toDid \in GraphDids, maxDepth \in {0, 1, MAX_TRUST_DEPTH} :
          FindTrustPath(fromDid, toDid, maxDepth)
    \/ \E fromDid \in DIDs, toDid \in GraphDids : GetTrustPathSelect(fromDid, toDid)
    \/ GetTrustPathFind
    \/ FindTrustPathStep
    \/ FindTrustPathReturn

SpecGraph == InitGraph /\ [][NextGraph]_vars

(* C18: the edges a findTrustPath call traverses are exactly the edges    *)
(* it was given that are not revoked and have no expiry or an expiry      *)
(* after the time of the call; an edge that expires at that time is not   *)
(* among them.                                                            *)
C18_TraversesExactlyActiveEdges ==
    search.pc \in {"running", "done"} =>
        search.validEdges = SelectActiveEdges(search.edges, search.calledAt)

(* C19: an edge of the table that is revoked or expired (its expiresAt    *)
(* is not after the present time) is still revoked or expired after every *)
(* step, and no findTrustPath call made at such a time has it among the   *)
(* edges it traverses.                                                    *)
C19_InactiveEdgesStayOut ==
    /\ [][\A i \in 1..Len(trustEdges) :
            SelectActiveEdges(<<trustEdges[i]>>, now) = <<>>
                => /\ i <= Len(trustEdges')
                   /\ trustEdges'[i].sourceDid = trustEdges[i].sourceDid
                   /\ trustEdges'[i].targetDid = trustEdges[i].targetDid
                   /\ SelectActiveEdges(<<trustEdges'[i]>>, now') = <<>>]_vars
    /\ [](search.pc \in {"running", "done"} =>
            \A i \in 1..Len(search.validEdges) :
                SelectActiveEdges(<<search.validEdges[i]>>, search.calledAt)
                    # <<>>)

(* A call of findTrustPath runs on: its loop is synchronous code that     *)
(* nothing suspends.                                                      *)
SpecGraphFair ==
    SpecGraph /\ WF_vars(FindTrustPathStep) /\ WF_vars(FindTrustPathReturn)

(* C20: every call of findTrustPath returns, whatever the edges, cycles   *)
(* and self-loops included, and whatever the two identifiers; its loop    *)
(* dequeues each identifier at most once, so it makes no more iterations  *)
(* than there are identifiers on its valid edges, the source counted,     *)
(* independently of maxDepth.                                             *)
C20_FindTrustPathTerminates ==
    /\ (search.pc = "running") ~> (search.pc = "done")
    /\ [](LET reached == {search.fromDid} \cup
                         {search.validEdges[i].targetDid :
                            i \in 1..Len(search.validEdges)}
          IN  /\ search.iterations <= Cardinality(reached)
              /\ Len(search.queue) <= Cardinality(reached))

(* A call over the cycle A -> B -> C -> A and the self-loop A -> A has    *)
(* returned after dequeuing all three identifiers of the cycle.           *)
C20_Witness ==
    /\ search.pc = "done"
    /\ search.iterations = 3
    /\ ~search.result.found
    /\ \A k \in 1..4 : \E i \in 1..Len(search.validEdges) :
          search.validEdges[i] = EdgePool[k]

(* C21: whenever a findTrustPath call has returned found = true, no       *)
(* identifier occurs twice on the returned path.                          *)
C21_PathVerticesDistinct ==
    (search.pc = "done" /\ search.result.found) =>
        \A i \in 1..Len(search.result.path) :
            \A j \in 1..Len(search.result.path) :
                i # j => search.result.path[i].did # search.result.path[j].did

(* A path of three identifiers was returned from a table that holds the   *)
(* cycle and the self-loop.                                               *)
C21_Witness ==
    /\ search.pc = "done"
    /\ search.result.found
    /\ Len(search.result.path) = 3
    /\ \A k \in 1..4 : \E i \in 1..Len(search.validEdges) :
          search.validEdges[i] = EdgePool[k]

(* The identifiers at exactly k hops or fewer from did over the edges in  *)
(* es (a sequence), by the definition of a path: Within(es, did, 0) is    *)
(* did alone, and each further hop follows one edge.                      *)
RECURSIVE Within(_, _, _)
Within(es, did, k) ==
    IF k = 0 THEN {did}
    ELSE LET near == Within(es, did, k - 1)
         IN  near \cup {es[i].targetDid :
                          i \in {j \in 1..Len(es) : es[j].sourceDid \in near}}

(* C22: a findTrustPath call returns found = true exactly when the target *)
(* can be reached from the source in at most maxDepth hops over the edges *)
(* it was given that are valid at the time of the call (not revoked, no   *)
(* expiry or an expiry after that time); the hops it reports are then at  *)
(* most maxDepth.                                                         *)
C22_FoundIffWithinMaxDepth ==
    search.pc = "done" =>
        /\ search.result.found
             <=> search.toDid \in
                   Within(SelectActiveEdges(search.edges, search.calledAt),
                          search.fromDid, search.maxDepth)
        /\ search.result.found => search.result.hops <= search.maxDepth

(* The paths of h hops from fromDid to toDid over the edges in es, each   *)
(* given by the positions in es of its edges.                             *)
HopPaths(es, fromDid, toDid, h) ==
    { p \in [1..h -> 1..Len(es)] :
        /\ h > 0 => es[p[1]].sourceDid = fromDid /\ es[p[h]].targetDid = toDid
        /\ h = 0 => fromDid = toDid
        /\ \A i \in 1..(h - 1) : es[p[i]].targetDid = es[p[i + 1]].sourceDid }

(* p comes before q when the edges are enumerated in their order, hop by  *)
(* hop: at the first hop where they differ, p takes the earlier edge.     *)
EnumeratedBefore(p, q) ==
    \E i \in 1..Len(p) :
        /\ p[i] < q[i]
        /\ \A j \in 1..(i - 1) : p[j] = q[j]

(* C23: the path a findTrustPath call returns has as few hops as any      *)
(* path from the source to the target over the edges the call traverses,  *)
(* and among the paths of that many hops it is the one that comes first   *)
(* when the edges are enumerated in their order.                          *)
C23_ShortestAndFirstDiscovered ==
    (search.pc = "done" /\ search.result.found) =>
        LET es == search.validEdges
            h == search.result.hops
            path == search.result.path
            P == HopPaths(es, search.fromDid, search.toDid, h)
        IN  /\ Len(path) = h + 1
            /\ path[1].did = search.fromDid
            /\ \A k \in 0..(h - 1) :
                  HopPaths(es, search.fromDid, search.toDid, k) = {}
            /\ \E p \in P :
                  /\ \A q \in P : q = p \/ EnumeratedBefore(p, q)
                  /\ \A i \in 1..h :
                        path[i + 1] = [did |-> es[p[i]].targetDid,
                                       trustLevel |-> es[p[i]].trustLevel]

(* The two-hop path A -> B -> C was returned where A -> D -> C, of as     *)
(* many hops, was there as well.                                          *)
C23_Witness ==
    /\ search.pc = "done"
    /\ search.result.found
    /\ search.result.hops = 2
    /\ Cardinality(HopPaths(search.validEdges, search.fromDid,
                            search.toDid, 2)) = 2

----------------------------------------------------------------------------
(* Reputation scoring called on a table as it is: computeReputationScore  *)
(* of scoring.ts and of types.ts, on the same rows at the same time.      *)

(* The rows a table may hold: the chain C -> E -> D -> A -> B of four     *)
(* hops into B, C -> B and D -> C that shorten it, the self-attestation   *)
(* B -> B, an edge that expires one second after the start and a revoked  *)
(* edge.  No two rows have the same source and target.                    *)
ScorePool ==
    << [sourceDid |-> "A", targetDid |-> "B", trustLevel |-> 80,
        expiresAt |-> NULL, revokedAt |-> NULL],
       [sourceDid |-> "D", targetDid |-> "A", trustLevel |-> 50,
        expiresAt |-> NULL, revokedAt |-> NULL],
       [sourceDid |-> "E", targetDid |-> "D", trustLevel |-> 70,
        expiresAt |-> NULL, revokedAt |-> NULL],
       [sourceDid |-> "C", targetDid |-> "E", trustLevel |-> 40,
        expiresAt |-> NULL, revokedAt |-> NULL],
       [sourceDid |-> "C", targetDid |-> "B", trustLevel |-> 60,
        expiresAt |-> NULL, revokedAt |-> NULL],
       [sourceDid |-> "D", targetDid |-> "C", trustLevel |-> 90,
        expiresAt |-> NULL, revokedAt |-> NULL],
       [sourceDid |-> "B", targetDid |-> "B", trustLevel |-> 100,
        expiresAt |-> NULL, revokedAt |-> NULL],
       [sourceDid |-> "E", targetDid |-> "A", trustLevel |-> 30,
        expiresAt |-> StartTime + 1, revokedAt |-> NULL],
       [sourceDid |-> "D", targetDid |-> "B", trustLevel |-> 20,
        expiresAt |-> NULL, revokedAt |-> StartTime] >>

InitScoring ==
    /\ SignInit
    /\ search = NoSearch
    /\ scored = NoScored
    /\ HostInit
    /\ now = StartTime
    /\ ticks = 0
    /\ identities = {}
    /\ trustEdges \in
         { [i \in 1..Cardinality(S) |->
               ScorePool[CHOOSE k \in S :
                            Cardinality({j \in S : j < k}) = i - 1]] :
           S \in SUBSET (1..Len(ScorePool)) }
    /\ reputationScores = {}
    /\ identityCache = [d \in DIDs |-> NULL]
    /\ circuitBreaker = [failureCount |-> 0, openUntil |-> 0]
    /\ handlers = [h \in Handlers |-> IdleHandler]
    /\ rowBasis = [d \in DIDs |-> 0]
    /\ firstFailureAt = NULL
    /\ probedFor = 0

(* computeReputationScore(edges, did) on the rows of the table, by each   *)
(* of the two implementations                                             *)
ComputeReputationScore(did) ==
    /\ scored.did = NoDid
    /\ scored' = [did |-> did, at |-> now, edges |-> trustEdges,
                  indexed |-> computeReputationScore(trustEdges, did, now),
                  filtering |->
                     computeReputationScoreFiltering(trustEdges, did, now)]
    /\ UNCHANGED <<tvars, svars, search, hvars>>

(* A call keeps nothing for the next one, so one call is followed, made   *)
(* after any time has passed.                                             *)
NextScoring ==
    \/ \E d \in {1} : scored.did = NoDid /\ Tick(d)
                      /\ UNCHANGED <<svars, gvars, hvars>>
    \/ \E did \in GraphDids : ComputeReputationScore(did)

SpecScoring == InitScoring /\ [][NextScoring]_vars

(* C25: the transitive trusters computeReputationScore counts are exactly *)
(* the identifiers whose shortest distance to the subject, against the    *)
(* direction of the edges valid at the time of the call (not revoked, no  *)
(* expiry or an expiry after that time), is 2 or 3; the count returned is *)
(* the size of that set.                                                  *)
C25_TransitiveAreAtDistanceTwoOrThree ==
    scored.did # NoDid =>
        LET valid == SelectActiveEdges(scored.edges, scored.at)
            reversed == [i \in 1..Len(valid) |->
                           [valid[i] EXCEPT
                              !.sourceDid = valid[i].targetDid,
                              !.targetDid = valid[i].sourceDid]]
            atTwoOrThree == Within(reversed, scored.did, 3)
                               \ Within(reversed, scored.did, 1)
        IN  /\ scored.indexed.transitive = atTwoOrThree
            /\ scored.indexed.transitiveTrusters = Cardinality(atTwoOrThree)

(* C26: called on the same edges, for the same subject, at the same time, *)
(* the computeReputationScore that filters and the one that uses the      *)
(* reverse index return the same score, the same number of direct         *)
(* trusters and the same number of transitive trusters.                   *)
C26_ImplementationsAgree ==
    scored.did # NoDid =>
        /\ scored.indexed.score = scored.filtering.score
        /\ scored.indexed.directTrusters = scored.filtering.directTrusters
        /\ scored.indexed.transitiveTrusters
             = scored.filtering.transitiveTrusters

(* Both were called for B on the chain of four hops into B: A is a direct *)
(* truster, D and E are transitive, C is too far.                         *)
C26_Witness ==
    /\ scored.did = "B"
    /\ scored.indexed.directTrusters = 1
    /\ scored.indexed.transitive = {"D", "E"}
    /\ \E i \in 1..Len(scored.edges) : scored.edges[i].sourceDid = "C"
    /\ scored.filtering.score > 0

----------------------------------------------------------------------------
(* Graceful shutdown of a service process (index.ts of trust-graph and of *)
(* discovery, the same code).  The drain loop sleeps 100 ms between two   *)
(* looks, less than the unit of the clock: a look can come at any time.   *)

MaxRequests == 3
MaxSignals == 2
DRAIN_SECONDS == 10

(* A wrappedFetch that dispatches whatever the flag says. *)
wrappedFetch_NoFlag(s) ==
    [s EXCEPT !.received = @ + 1, !.inFlightRequests = @ + 1,
              !.lastStatus = 0, !.lastDispatched = TRUE]

(* wrappedFetch up to its await: the 503 while shutting down, otherwise   *)
(* the request is counted and handed to the application.                  *)
wrappedFetch(s) ==
    IF s.isShuttingDown
    THEN [s EXCEPT !.received = @ + 1,
                   !.lastStatus = 503, !.lastDispatched = FALSE]
    ELSE [s EXCEPT !.received = @ + 1, !.inFlightRequests = @ + 1,
                   !.lastStatus = 0, !.lastDispatched = TRUE]

(* A drain loop that never waits. *)
StillDraining_Never(s, t) == FALSE

(* The condition of the drain loop *)
StillDraining(s, t) == s.inFlightRequests > 0 /\ t < s.deadline

(* After the drain loop: server.close() and rawSql.end() is called. *)
CloseAndEnd(s, t) ==
    [s EXCEPT !.pc = "ending", !.serverClosed = TRUE,
              !.endCalledAt = t, !.inFlightAtEnd = s.inFlightRequests]

(* A request arrives: on a new connection, or after server.close() on a  *)
(* connection that was kept open.                                         *)
ReceiveRequest ==
    /\ ~server.exited
    /\ server.received < MaxRequests
    /\ server' = wrappedFetch(server)
    /\ UNCHANGED <<tvars, svars, gvars, resolution, discovery>>

(* The application has answered a request, or thrown: the finally block *)
CompleteRequest ==
    /\ ~server.exited
    /\ server.inFlightRequests > 0
    /\ server' = [server EXCEPT !.inFlightRequests = @ - 1]
    /\ UNCHANGED <<tvars, svars, gvars, resolution, discovery>>

(* SIGTERM or SIGINT: shutdown() up to its first await *)
Shutdown ==
    /\ ~server.exited
    /\ server.signals < MaxSignals
    /\ server' =
         IF server.isShuttingDown
         THEN [server EXCEPT !.signals = @ + 1]
         ELSE LET s == [server EXCEPT !.signals = @ + 1,
                                      !.isShuttingDown = TRUE,
                                      !.shutdownAt = now,
                                      !.deadline = now + DRAIN_SECONDS]
              IN  IF StillDraining(s, now)
                  THEN [s EXCEPT !.pc = "draining"]
                  ELSE CloseAndEnd(s, now)
    /\ UNCHANGED <<tvars, svars, gvars, resolution, discovery>>

(* The sleep of the drain loop is over and the loop ends. *)
DrainLoopExit ==
    /\ server.pc = "draining"
    /\ ~StillDraining(server, now)
    /\ server' = CloseAndEnd(server, now)
    /\ UNCHANGED <<tvars, svars, gvars, resolution, discovery>>

(* rawSql.end() has resolved: process.exit(0) *)
PoolEndedExit ==
    /\ server.pc = "ending"
    /\ server' = [server EXCEPT !.pc = "exited", !.poolEnded = TRUE,
                                !.exited = TRUE]
    /\ UNCHANGED <<tvars, svars, gvars, resolution, discovery>>

NextShutdown ==
    \/ \E d \in {1, DRAIN_SECONDS - 1} :
          ~server.exited /\ Tick(d) /\ UNCHANGED <<svars, gvars, hvars>>
    \/ ReceiveRequest
    \/ CompleteRequest
    \/ Shutdown
    \/ DrainLoopExit
    \/ PoolEndedExit

SpecShutdown == Init /\ [][NextShutdown]_vars

(* C27: once shutdown() has set isShuttingDown, every request that is     *)
(* received is answered 503 and is not handed to the application: the     *)
(* number of requests in flight does not rise.                            *)
C27_NewRequestsRefused ==
    [][(server.isShuttingDown /\ server'.received = server.received + 1)
          => /\ server'.lastStatus = 503
             /\ ~server'.lastDispatched
             /\ server'.inFlightRequests = server.inFlightRequests]_vars

(* A request was refused while another one, received before the shutdown  *)
(* began, was still in flight.                                            *)
C27_Witness ==
    /\ server.isShuttingDown
    /\ server.lastStatus = 503
    /\ server.inFlightRequests > 0

----------------------------------------------------------------------------
(* IdentityResolver.resolve (resolver.ts) over DiscoveryClient            *)
(* (client.ts): one resolver, one call at a time.                         *)

MaxResolves == 2
RESOLVER_CACHE_TTL == 300

(* What a fetch of the client can come to: a 2xx answer with a body, a    *)
(* 404, another status that is not ok, or a rejected fetch.               *)
LookupOutcomes == {"ok", "404", "500", "rejected"}

(* didOrDomain.startsWith(DID_PREFIX) *)
StartsWithDidPrefix(didOrDomain) == didOrDomain \in {"did:fides:abc"}

(* DiscoveryClient.resolve and resolveFromWellKnown once the fetch has    *)
(* settled: the body, null on 404, a DiscoveryError otherwise.            *)
ClientResult(target, subject, outcome) ==
    IF outcome = "ok" THEN Returned(<<target, subject>>)
    ELSE IF outcome = "404" THEN Returned(<<>>)
    ELSE Thrown("DiscoveryError")

(* The end of resolve: the identity is cached if there is one. *)
ResolveReturn(r, identity) ==
    [r EXCEPT
       !.pc = "done", !.outcome = "returned", !.identity = identity,
       !.cache = IF identity = <<>> THEN @
                 ELSE {e \in @ : e.key # r.input}
                        \cup {[key |-> r.input, identity |-> identity,
                               timestamp |-> now]}]

(* resolve(didOrDomain) up to its first await: the cache, then the choice *)
(* of the lookup.                                                         *)
ResolveStart(didOrDomain) ==
    LET r == [resolution EXCEPT !.input = didOrDomain, !.lookups = <<>>,
                                !.outcome = "", !.identity = <<>>,
                                !.calls = @ + 1]
        cached == {e \in resolution.cache :
                     /\ e.key = didOrDomain
                     /\ now - e.timestamp < RESOLVER_CACHE_TTL}
    IN  /\ resolution.pc \in {"idle", "done"}
        /\ resolution.calls < MaxResolves
        /\ resolution' =
             IF cached # {}
             THEN [r EXCEPT !.pc = "done", !.outcome = "returned",
                            !.identity = (CHOOSE e \in cached : TRUE).identity]
             ELSE IF StartsWithDidPrefix(didOrDomain)
             THEN [r EXCEPT !.pc = "registry"]
             ELSE [r EXCEPT !.pc = "wellKnown"]
        /\ UNCHANGED <<tvars, svars, gvars, server, discovery>>

(* client.resolveFromWellKnown(domain) has settled. *)
WellKnownSettles(outcome) ==
    LET r == [resolution EXCEPT
                !.lookups = Append(@, [target |-> "wellKnown",
                                       outcome |-> outcome])]
        doc == ClientResult("wellKnown", resolution.input, outcome)
    IN  /\ resolution.pc = "wellKnown"
        /\ resolution' =
             IF ~doc.ok
             THEN [r EXCEPT !.pc = "done", !.outcome = "thrown"]
             ELSE IF doc.value # <<>>
             THEN ResolveReturn(r, doc.value)
             ELSE [r EXCEPT !.pc = "registry"]
        /\ UNCHANGED <<tvars, svars, gvars, server, discovery>>

(* client.resolve(didOrDomain) has settled. *)
RegistrySettles(outcome) ==
    LET r == [resolution EXCEPT
                !.lookups = Append(@, [target |-> "registry",
                                       outcome |-> outcome])]
        identity == ClientResult("registry", resolution.input, outcome)
    IN  /\ resolution.pc = "registry"
        /\ resolution' =
             IF ~identity.ok
             THEN [r EXCEPT !.pc = "done", !.outcome = "thrown"]
             ELSE ResolveReturn(r, identity.value)
        /\ UNCHANGED <<tvars, svars, gvars, server, discovery>>

NextResolve ==
    \/ \E d \in {1, RESOLVER_CACHE_TTL} :
          Tick(d) /\ UNCHANGED <<svars, gvars, hvars>>
    \/ \E didOrDomain \in {"example.com", "did:fides:abc"} :
          ResolveStart(didOrDomain)
    \/ \E outcome \in LookupOutcomes : WellKnownSettles(outcome)
    \/ \E outcome \in LookupOutcomes : RegistrySettles(outcome)

SpecResolve == Init /\ [][NextResolve]_vars

(* C29: a resolve call for a bare domain that has ended made its first    *)
(* lookup, if it made any, at the domain's well-known address; when that  *)
(* lookup gave a document the registry was not asked; and when that       *)
(* lookup failed, with a 404, another error status or a rejected fetch,   *)
(* the registry was asked next.                                           *)
C29_WellKnownThenRegistry ==
    (resolution.pc = "done" /\ ~StartsWithDidPrefix(resolution.input)
         /\ resolution.lookups # <<>>) =>
        /\ resolution.lookups[1].target = "wellKnown"
        /\ resolution.lookups[1].outcome = "ok"
              => Len(resolution.lookups) = 1
        /\ resolution.lookups[1].outcome # "ok"
              => /\ Len(resolution.lookups) = 2
                 /\ resolution.lookups[2].target = "registry"

----------------------------------------------------------------------------
(* POST /identities of the discovery service (routes/health.ts).          *)
(* A key is a sequence of bytes, a hex text a sequence of characters; a   *)
(* DID suffix is one of a few base58 texts whose decoding is tabulated.   *)

MaxRegistrations == 2

HexLowerDigits ==
    <<"0", "1", "2", "3", "4", "5", "6", "7", "8", "9",
      "a", "b", "c", "d", "e", "f">>
HexUpperDigits ==
    <<"0", "1", "2", "3", "4", "5", "6", "7", "8", "9",
      "A", "B", "C", "D", "E", "F">>

(* Buffer.from(bytes).toString('hex') *)
ToHex(bytes) ==
    [i \in 1..(2 * Len(bytes)) |->
        LET b == bytes[(i + 1) \div 2]
        IN  HexLowerDigits[(IF i % 2 = 1 THEN b \div 16 ELSE b % 16) + 1]]

(* The same bytes written with capital digits, as a client may send them *)
ToHexUpper(bytes) ==
    [i \in 1..(2 * Len(bytes)) |->
        LET b == bytes[(i + 1) \div 2]
        IN  HexUpperDigits[(IF i % 2 = 1 THEN b \div 16 ELSE b % 16) + 1]]

(* String.prototype.toLowerCase on one character and on a text *)
LowerChar(ch) ==
    IF \E k \in 11..16 : HexUpperDigits[k] = ch
    THEN HexLowerDigits[CHOOSE k \in 11..16 : HexUpperDigits[k] = ch]
    ELSE ch
HexToLowerCase(text) == [i \in 1..Len(text) |-> LowerChar(text[i])]

(* /^[0-9a-fA-F]+$/.test(text) *)
IsHexText(text) ==
    /\ Len(text) > 0
    /\ \A i \in 1..Len(text) :
          \E k \in 1..16 : text[i] \in {HexLowerDigits[k], HexUpperDigits[k]}

(* The bytes a hex text of even length stands for *)
HexValue(ch) == CHOOSE k \in 0..15 : LowerChar(ch) = HexLowerDigits[k + 1]
HexDecode(text) ==
    [i \in 1..(Len(text) \div 2) |->
        16 * HexValue(text[2 * i - 1]) + HexValue(text[2 * i])]

KeyA == [i \in 1..ED25519_PUBLIC_KEY_LENGTH |-> 171]
KeyB == [i \in 1..ED25519_PUBLIC_KEY_LENGTH |-> 205]
ShortKey == [i \in 1..(ED25519_PUBLIC_KEY_LENGTH - 1) |-> 171]

(* /^[1-9A-HJ-NP-Za-km-z]+$/.test(didSuffix): "0OIl" holds characters    *)
(* that are not base58, "" is the empty suffix.                           *)
IsBase58(didSuffix) == didSuffix \in {"base58(KeyA)", "base58(KeyB)", "base58(ShortKey)"}

(* bs58.decode(didSuffix) for a suffix that passed the test above *)
bs58decode(didSuffix) ==
    CASE didSuffix = "base58(KeyA)" -> KeyA
      [] didSuffix = "base58(KeyB)" -> KeyB
      [] didSuffix = "base58(ShortKey)" -> ShortKey

(* The request bodies sent to the route *)
DidInputs ==
    {[kind |-> "absent", prefixed |-> FALSE, suffix |-> ""],
     [kind |-> "number", prefixed |-> FALSE, suffix |-> ""]}
      \cup [kind : {"string"}, prefixed : BOOLEAN,
            suffix : {"", "0OIl", "base58(KeyA)", "base58(KeyB)",
                      "base58(ShortKey)"}]
PublicKeyInputs ==
    {[kind |-> "absent", text |-> <<>>]}
      \cup [kind : {"string"},
            text : {ToHex(KeyA), ToHexUpper(KeyA), ToHex(KeyB),
                    ToHex(ShortKey), <<"x", "y">>,
                    [i \in 1..(2 * ED25519_PUBLIC_KEY_LENGTH) |-> "g"]}]
RegisterBodies == [did : DidInputs, publicKey : PublicKeyInputs]

(* didPubKeyHex !== body.publicKey.toLowerCase(), negated *)
DidMatchesPublicKey_LengthOnly(didSuffix, publicKey) ==
    Len(ToHex(bs58decode(didSuffix))) = Len(HexToLowerCase(publicKey))

DidMatchesPublicKey(didSuffix, publicKey) ==
    ToHex(bs58decode(didSuffix)) = HexToLowerCase(publicKey)

(* The status the handler answers with before it reaches the insert, or  *)
(* 0 when every check has passed.                                         *)
ValidateRegistration(body) ==
    IF body.did.kind = "absent" \/ body.publicKey.kind = "absent" THEN 400
    ELSE IF body.did.kind # "string" THEN 500
    ELSE IF ~body.did.prefixed THEN 400
    ELSE IF ~IsBase58(body.did.suffix) \/ body.did.suffix = "" THEN 400
    ELSE IF ~IsHexText(body.publicKey.text) THEN 400
    ELSE IF Len(body.publicKey.text) # ED25519_PUBLIC_KEY_LENGTH * 2 THEN 400
    ELSE IF ~DidMatchesPublicKey(body.did.suffix, body.publicKey.text) THEN 403
    ELSE 0

(* identitiesRouter.post('/'): the checks, then the insert; a duplicate  *)
(* primary key is answered with 409, any other database error with 500.  *)
Register(body, dbError) ==
    LET rejected == ValidateRegistration(body)
        duplicate == \E row \in discovery.rows : row.did = body.did
        status == IF rejected # 0 THEN rejected
                  ELSE IF dbError THEN 500
                  ELSE IF duplicate THEN 409
                  ELSE 201
    IN  /\ discovery.calls < MaxRegistrations
        /\ discovery' =
             [discovery EXCEPT
                !.calls = @ + 1, !.body = body, !.status = status,
                !.stored = (status = 201),
                !.rows = IF status = 201
                         THEN @ \cup {[did |-> body.did,
                                       publicKey |-> body.publicKey.text]}
                         ELSE @]
        /\ UNCHANGED <<tvars, svars, gvars, server, resolution>>

NextDiscovery ==
    \E body \in RegisterBodies, dbError \in BOOLEAN : Register(body, dbError)

SpecDiscovery == Init /\ [][NextDiscovery]_vars

(* The last request named a DID with the prefix and a base58 suffix and   *)
(* a public key in hex of even length, so that both byte strings exist.   *)
BothKeysDefined ==
    /\ discovery.calls > 0
    /\ discovery.body.did.kind = "string"
    /\ discovery.body.did.prefixed
    /\ IsBase58(discovery.body.did.suffix)
    /\ discovery.body.publicKey.kind = "string"
    /\ IsHexText(discovery.body.publicKey.text)
    /\ Len(discovery.body.publicKey.text) % 2 = 0

PublicKeyBytesDiffer ==
    HexDecode(discovery.body.publicKey.text)
        # bs58decode(discovery.body.did.suffix)

----------------------------------------------------------------------------
(* The Signature-Input text and the signature base of a signed request *)

(* The Signature-Input header signRequest wrote for the parameters *)
SentSignatureInput == HeaderGet(sent.request.headers, "Signature-Input")

(* C31: the parameters parsed from the Signature-Input header that        *)
(* signRequest serialized are the parameters it serialized: components,   *)
(* created, expires, keyid, alg and nonce.                                *)
C31_ParseInvertsSerialize ==
    sent.ok =>
        /\ parseSignatureInput(SentSignatureInput).ok
        /\ parseSignatureInput(SentSignatureInput).params = sent.params

(* Whether text has the piece at position i *)
HasPieceAt(text, piece, i) ==
    /\ i + Len(piece) - 1 <= Len(text)
    /\ SubSeq(text, i, i + Len(piece) - 1) = piece

(* C32: the signature base of a request signed with a nonce has, in its   *)
(* "@signature-params" line, nonce="<value>" and after it the keyid.      *)
C32_NonceInSignatureBase ==
    sent.ok =>
        LET base == sent.made.msg
            nonceText == <<";", "nonce", "=", QUOTE>> \o sent.params.nonce
                            \o <<QUOTE, ";", "keyid", "=">>
        IN  \E i \in 1..Len(base) :
               /\ HasPieceAt(base, nonceText, i)
               /\ \E j \in 1..i : HasPieceAt(base, <<"@signature-params">>, j)

----------------------------------------------------------------------------
(* The registry fetch of ensureIdentity in its two awaits: the response   *)
(* (awaited under the abort timer) and the response body (awaited after   *)
(* clearTimeout).                                                         *)

(* await fetch(...) resolved with an ok response; clearTimeout(timeoutId) *)
(* has run and response.json() is awaited.                                *)
EnsureFetchResponds(h, role) ==
    /\ handlers[h].ens[role].pc = "fetch"
    /\ SetTask(h, role, [handlers[h].ens[role] EXCEPT !.pc = "body"])
    /\ UNCHANGED <<now, ticks, identities, trustEdges, reputationScores,
                   identityCache, circuitBreaker, rowBasis, firstFailureAt,
                   probedFor>>

(* await response.json() settled: an identity, a body without publicKey,  *)
(* or a body that does not parse (caught by the catch block).             *)
EnsureBodyDone(h, role, outcome) ==
    /\ handlers[h].ens[role].pc = "body"
    /\ FetchSettled(h, role, outcome)

NextFetch ==
    \/ UNCHANGED <<svars, gvars, hvars>> /\ \E d \in BreakerTickDeltas : Tick(d)
    \/ UNCHANGED <<svars, gvars, hvars>> /\ \E h \in CreateHandlers, issuerDid \in RequestDids, subjectDid \in SubjectDids : CreateTrustStart(h, issuerDid, subjectDid, 100, NULL, TRUE, TRUE)
    \/ UNCHANGED <<svars, gvars, hvars>> /\ \E h \in Handlers, role \in Roles : EnsureSelect(h, role)
    \/ UNCHANGED <<svars, gvars, hvars>> /\ \E h \in Handlers, role \in Roles, outcome \in {"not_ok", "throw"} : EnsureFetchDone(h, role, outcome)
    \/ UNCHANGED <<svars, gvars, hvars>> /\ \E h \in Handlers, role \in Roles : EnsureFetchResponds(h, role)
    \/ UNCHANGED <<svars, gvars, hvars>> /\ \E h \in Handlers, role \in Roles, outcome \in {"ok", "ok_nokey", "throw"} : EnsureBodyDone(h, role, outcome)
    \/ UNCHANGED <<svars, gvars, hvars>> /\ \E h \in Handlers, role \in Roles : EnsureInsert(h, role)
    \/ UNCHANGED <<svars, gvars, hvars>> /\ \E h \in Handlers, role \in Roles : EnsureUpdate(h, role)
    \/ UNCHANGED <<svars, gvars, hvars>> /\ \E h \in Handlers : CreateTrustVerify(h, AttestationSignature(handlers[h]), AttestationPayload(handlers[h]))
    \/ UNCHANGED <<svars, gvars, hvars>> /\ \E h \in Handlers : CreateTrustInsert(h)
    \/ UNCHANGED <<svars, gvars, hvars>> /\ \E h \in Handlers : CreateTrustInvalidate(h)
    \/ UNCHANGED <<svars, gvars, hvars>> /\ \E h \in Handlers : Return(h)

SpecFetch == Init /\ [][NextFetch]_vars

(* C33: an ensureIdentity call that waits on the registry, for the        *)
(* response or for its body, has waited no more than FETCH_TIMEOUT.       *)
C33_FetchBoundedByDeadline ==
    \A h \in Handlers : \A role \in Roles :
        handlers[h].ens[role].pc \in {"fetch", "body"}
            => now - handlers[h].ens[role].startedAt <= FETCH_TIMEOUT

----------------------------------------------------------------------------
(* C34: no row of reputation_scores is both fresh (lastComputed within    *)
(* the last hour) and computed from an edge set that lacks an edge into   *)
(* its subject whose createTrust has returned.                            *)
C34_NoFreshRowWithoutCommittedEdge ==
    \A row \in reputationScores :
        now - row.lastComputed < SCORE_CACHE_TTL
            => rowBasis[row.did] >= CommittedMax(row.did)

----------------------------------------------------------------------------
(* C35: ensureIdentity calls that overlap for one identifier leave one    *)
(* identities row for it, and none of them fails at its insert because    *)
(* the other's insert came first.                                         *)
C35_ConcurrentMaterializeOnce ==
    /\ \A did \in DIDs : Cardinality(IdentityRows(did)) <= 1
    /\ \A h \in Handlers : \A role \in Roles :
          handlers[h].ens[role].error # "db_error"

----------------------------------------------------------------------------
(* createTrust for a pair whose stored edge is no longer active.  The     *)
(* service has no operation that revokes an edge, so a revoked edge is    *)
(* one of the tables the service starts on; an expiring edge is made by a *)
(* createTrust that names an expiresAt.                                   *)

RevokedEdge ==
    [sourceDid |-> "A", targetDid |-> "B", trustLevel |-> 100,
     expiresAt |-> NULL, revokedAt |-> StartTime]

InitRenew ==
    /\ SignInit
    /\ search = NoSearch
    /\ scored = NoScored
    /\ HostInit
    /\ now = StartTime
    /\ ticks = 0
    /\ identities = {[did |-> d, publicKey |-> RegistryKey(d)] :
                        d \in RequestDids}
    /\ trustEdges \in {<<>>, <<RevokedEdge>>}
    /\ reputationScores = {}
    /\ identityCache = [d \in DIDs |-> NULL]
    /\ circuitBreaker = [failureCount |-> 0, openUntil |-> 0]
    /\ handlers = [h \in Handlers |-> IdleHandler]
    /\ rowBasis = [d \in DIDs |-> 0]
    /\ firstFailureAt = NULL
    /\ probedFor = 0

NextRenew ==
    \/ UNCHANGED <<svars, gvars, hvars>> /\ \E d \in {1} : Tick(d)
    \/ UNCHANGED <<svars, gvars, hvars>> /\ \E h \in CreateHandlers, issuerDid \in RequestDids, subjectDid \in SubjectDids, expiresAt \in {NULL, StartTime + 1} : CreateTrustStart(h, issuerDid, subjectDid, 100, expiresAt, TRUE, TRUE)
    \/ UNCHANGED <<svars, gvars, hvars>> /\ \E h \in Handlers, role \in Roles : EnsureSelect(h, role)
    \/ UNCHANGED <<svars, gvars, hvars>> /\ \E h \in Handlers, role \in Roles : EnsureUpdate(h, role)
    \/ UNCHANGED <<svars, gvars, hvars>> /\ \E h \in Handlers : CreateTrustVerify(h, AttestationSignature(handlers[h]), AttestationPayload(handlers[h]))
    \/ UNCHANGED <<svars, gvars, hvars>> /\ \E h \in Handlers : CreateTrustInsert(h)
    \/ UNCHANGED <<svars, gvars, hvars>> /\ \E h \in Handlers : CreateTrustInvalidate(h)
    \/ UNCHANGED <<svars, gvars, hvars>> /\ \E h \in Handlers : Return(h)

SpecRenew == InitRenew /\ [][NextRenew]_vars

(* The stored edges from source to target *)
StoredEdges(edges, source, target) ==
    SelectSeq(edges, LAMBDA e : e.sourceDid = source /\ e.targetDid = target)

(* C36: when a verified createTrust from I for S reaches its insert while *)
(* the stored edge for (I, S) is expired or revoked, the insert succeeds  *)
(* and the table then holds an active edge from I to S.                   *)
C36_RenewAfterExpiryOrRevocation ==
    [][\A h \in Handlers :
          LET r == handlers[h]
              stored == StoredEdges(trustEdges, r.issuerDid, r.subjectDid)
          IN  (/\ r.op = "createTrust"
               /\ r.pc = "insert"
               /\ handlers'[h].pc # "insert"
               /\ stored # <<>>
               /\ SelectActiveEdges(stored, now) = <<>>)
              => /\ handlers'[h].pc = "invalidate"
                 /\ SelectActiveEdges(
                       StoredEdges(trustEdges', r.issuerDid, r.subjectDid),
                       now) # <<>>]_vars

----------------------------------------------------------------------------
(* C37: while the first fetch started after the open period (the probe)   *)
(* is in flight, no other ensureIdentity call has a registry fetch in     *)
(* flight.                                                                *)
C37_SingleProbeInFlight ==
    \A h \in Handlers : \A role \in Roles :
        (handlers[h].ens[role].pc = "fetch" /\ handlers[h].ens[role].probe)
            => \A g \in Handlers : \A other \in Roles :
                  (<<g, other>> # <<h, role>>)
                      => handlers[g].ens[other].pc # "fetch"

----------------------------------------------------------------------------
(* The edge list with the rows at positions i and j exchanged; every      *)
(* permutation of a list is made of such exchanges.                       *)
Exchanged(edges, i, j) ==
    [k \in 1..Len(edges) |->
        IF k = i THEN edges[j] ELSE IF k = j THEN edges[i] ELSE edges[k]]

(* C38: computeReputationScore returns the same score, directTrusters and *)
(* transitiveTrusters for an edge list and for the same list with two of  *)
(* its rows exchanged.                                                    *)
C38_ScoreIgnoresEdgeOrder ==
    scored.did # NoDid =>
        \A i, j \in 1..Len(scored.edges) :
            LET other == computeReputationScore(
                             Exchanged(scored.edges, i, j), scored.did,
                             scored.at)
            IN  /\ other.score = scored.indexed.score
                /\ other.directTrusters = scored.indexed.directTrusters
                /\ other.transitiveTrusters
                     = scored.indexed.transitiveTrusters

----------------------------------------------------------------------------
(* The NonceStore under its interval timer: cleanup runs at the multiples *)
(* of CLEANUP_INTERVAL after the store was made, and a nonce is checked   *)
(* when the request that carries it is verified for the first time.       *)

NonceTimerFires ==
    /\ now > StartTime
    /\ (now - StartTime) % CLEANUP_INTERVAL = 0
    /\ NonceCleanup

NextNonceTimer ==
    \/ \E d \in {CLEANUP_INTERVAL - 1, NONCE_TTL + 1} : Tick(d) /\ UNCHANGED <<svars, gvars, hvars>>
    \/ \E nonce \in Nonces : NonceCheck(nonce)
    \/ NonceTimerFires

SpecNonceTimer == Init /\ [][NextNonceTimer]_vars

(* C39: a nonce recorded when a request was first verified is in the      *)
(* store at every time at which the request's signature can still pass    *)
(* the expiry check of verifyRequest, that is up to expires plus drift    *)
(* for a signature made no earlier than that first verification.          *)
C39_NonceOutlivesSignature ==
    \A n \in Nonces :
        (/\ checks[n].lastTrueAt # NULL
         /\ ~isExpired([expires |-> checks[n].lastTrueAt
                                      + DEFAULT_SIGNATURE_EXPIRY_SECONDS],
                       DEFAULT_CLOCK_DRIFT_SECONDS, now))
            => \E e \in nonceStore : e.nonce = n

----------------------------------------------------------------------------
====
